---------------------------- MODULE Spec2Model ----------------------------
(***************************************************************************)
(* Model of the epd7in5bhd e-paper driver: the command/data writers of     *)
(* hardware.go (one mutex, the DC/CS lines, the SPI transport with its     *)
(* transfer limit) and the Display operations of display.go that are       *)
(* sequenced on top of them.                                               *)
(*                                                                         *)
(* Every step of a caller holds exactly one access to shared state (the    *)
(* mutex, a GPIO line, the transport, the busy line); the caller-local     *)
(* computation that follows the access belongs to the same step.           *)
(*                                                                         *)
(* time.Sleep calls carry no state and are not modelled.  A failing pin    *)
(* write leaves the line at its previous level.  The writers are followed  *)
(* under failing pin writes and failing transfers (SpecBus), the Display   *)
(* operations under failing transfers (Spec).                              *)
(***************************************************************************)
EXTENDS Integers, Sequences, FiniteSets, TLC

(* ------------------------------ bounds --------------------------------- *)

\* Panel geometry, scaled down from 880 x 528 pixels: the bytes of one row
\* (880 / 8 = 110) and the number of rows.
DisplayWidthBytes == 1

DisplayHeight == 2

\* hardware.txLimit as newHardware sets it, scaled down from 2048.
TxLimit == 2

\* Largest transfer limit the concurrent callers' hardware is given.
MaxLimit == 2

\* Longest payload of a raw command or data write in SpecBus.
MaxLen == 3

\* Failures of the hardware in one behaviour.
MaxFaults == 1

\* Largest width and height, in pixels, of an image made by NewImage.
MaxDx == 16

MaxDy == 2

(* --------------------------- program constants ------------------------- *)

\* The panel's width is a whole number of bytes.
DisplayWidth == DisplayWidthBytes * 8

BufSize == DisplayWidthBytes * DisplayHeight

setGateDriver == 1

softStart == 12

deepSleepMode == 16

dataEntryMode == 17

displayRefresh == 18

tempSensorControl == 24

masterActivation == 32

displayUpdateControl2 == 34

writeRAMBW == 36

writeRAMRed == 38

borderWaveformControl == 60

setRamXStart == 68

setRamYStart == 69

autoWriteRamRed == 70

autoWriteRamBW == 71

setRamXAddressCtr == 78

setRamYAddressCtr == 79

\* The cmd register of a caller that writes through DataWriter() directly.
NoCmd == 0

Low == "Low"

High == "High"

Callers == {1, 2}

(* ------------------------------- state --------------------------------- *)

VARIABLES
    txLimit,    \* hardware.txLimit
    mut,        \* hardware.mut: 0 when free, else the caller holding it
    cs,         \* level of the chip-select line
    dc,         \* level of the data/command-select line
    rst,        \* level of the reset line
    busy,       \* level of the busy line, driven by the panel controller
    Black,      \* Image.Black (of Display.buffer, where the image is the display's)
    Highlight,  \* Image.Highlight
    Rect,       \* Image.Rect, as width Dx and height Dy
    rectWidthBytes, \* Image.rectWidthBytes
    Palette,    \* Image.Palette
    last,       \* the last call on the image: arguments, planes before, outcome
    setup,      \* the setup steps that fail, and what New returned
    call,       \* per caller: position and locals of the call in progress
    curOp,      \* the Display operation in progress or last run, and its arguments
    dispState,  \* the DisplayState the panel was in when curOp was called,
                \* "-" where it is not followed
    called,     \* per caller: whether it has made its call (SpecBus)
    failing,    \* what can fail: "pin" (a GPIO write), "tx" (a transfer)
    faults,     \* pin and transport failures so far
    bus         \* history: every pin write, transfer and completed busy-wait

vars == <<txLimit, mut, cs, dc, rst, busy, Black, Highlight, Rect,
          rectWidthBytes, Palette, last, setup, call, curOp,
          dispState, called, failing, faults, bus>>

hwVars == <<txLimit, failing, Black, Highlight, Rect, rectWidthBytes, Palette,
           last, setup>>

(* ------------------------------ scripts -------------------------------- *)
(* A Display operation is straight-line code: a sequence of sendCommand,   *)
(* waitUntilIdle and rst.Out calls.                                        *)

Send(op, data) == [k |-> "send", op |-> op, data |-> data, lvl |-> "-"]

Data(data) == [k |-> "data", op |-> NoCmd, data |-> data, lvl |-> "-"]

Wait == [k |-> "wait", op |-> NoCmd, data |-> <<>>, lvl |-> "-"]

RstOut(l) == [k |-> "rst", op |-> NoCmd, data |-> <<>>, lvl |-> l]

\* append(img, pad...) on the plane `role` of the arguments of Upload.
AppendTo(role) == [k |-> "append", op |-> NoCmd, data |-> <<>>, lvl |-> role]

\* A call that panics.
PanicStep == [k |-> "panic", op |-> NoCmd, data |-> <<>>, lvl |-> "-"]

Repeat(b, n) == [k \in 1..n |-> b]


\* Mutant: Reset ends with the reset line low.
ResetEndsLow == <<RstOut(High), RstOut(Low)>>

\* Display.Reset
Reset == <<RstOut(High), RstOut(Low), RstOut(High)>>

\* Mutant: the refresh is triggered without waiting for it to finish.
turnOnDisplayNoWait ==
    << Send(displayUpdateControl2, <<199>>),
       Send(masterActivation, <<>>) >>

\* Display.turnOnDisplay
turnOnDisplay ==
    << Send(displayUpdateControl2, <<199>>),
       Send(masterActivation, <<>>),
       Wait >>

\* Mutant: the wait after the software reset is dropped and the two address
\* counters are set in the other order.
InitScriptReordered ==
    Reset \o
    << Send(displayRefresh, <<>>),
       Send(autoWriteRamRed, <<247>>),
       Wait,
       Send(autoWriteRamBW, <<247>>),
       Wait,
       Send(softStart, <<174, 199, 195, 192, 64>>),
       Send(setGateDriver, <<175, 2, 1>>),
       Send(dataEntryMode, <<1>>),
       Send(setRamXStart, <<0, 0, 111, 3>>),
       Send(setRamYStart, <<175, 2, 0, 0>>),
       Send(borderWaveformControl, <<1>>),
       Send(tempSensorControl, <<128>>),
       Send(displayUpdateControl2, <<177>>),
       Send(masterActivation, <<>>),
       Wait,
       Send(setRamYAddressCtr, <<175, 2>>),
       Send(setRamXAddressCtr, <<0, 0>>) >>

\* Display.Init
InitScript ==
    Reset \o
    << Send(displayRefresh, <<>>),
       Wait,
       Send(autoWriteRamRed, <<247>>),
       Wait,
       Send(autoWriteRamBW, <<247>>),
       Wait,
       Send(softStart, <<174, 199, 195, 192, 64>>),
       Send(setGateDriver, <<175, 2, 1>>),
       Send(dataEntryMode, <<1>>),
       Send(setRamXStart, <<0, 0, 111, 3>>),
       Send(setRamYStart, <<175, 2, 0, 0>>),
       Send(borderWaveformControl, <<1>>),
       Send(tempSensorControl, <<128>>),
       Send(displayUpdateControl2, <<177>>),
       Send(masterActivation, <<>>),
       Wait,
       Send(setRamXAddressCtr, <<0, 0>>),
       Send(setRamYAddressCtr, <<175, 2>>) >>

\* Mutant: the black plane is padded with black instead of white.
blackPadZero(blackImg) == Repeat(0, BufSize - Len(blackImg))

\* bytes.Repeat([]byte{0xFF}, BufSize-len(blackImg))
blackPad(blackImg) == Repeat(255, BufSize - Len(blackImg))

\* bytes.Repeat([]byte{0x00}, BufSize-len(redImg))
redPad(redImg) == Repeat(0, BufSize - Len(redImg))

\* Mutant: the highlight plane is written before the black plane.
UploadScriptRedFirst(blackImg, redImg) ==
    << Send(setRamYAddressCtr, <<175, 2>>),
       Send(writeRAMRed, redImg \o redPad(redImg)),
       Send(writeRAMBW, blackImg \o blackPad(blackImg)) >>
    \o turnOnDisplay

\* Mutant: a buffer longer than BufSize is sent as it is.
RepeatPanicsNever(count) == FALSE

\* bytes.Repeat panics on a negative count.
RepeatPanics(count) == count < 0

\* Display.Upload, statement by statement: each append is evaluated on the
\* way into its sendCommand, and a bytes.Repeat that panics ends the call.
UploadSteps(blackImg, redImg) ==
    << Send(setRamYAddressCtr, <<175, 2>>) >> \o
    IF RepeatPanics(BufSize - Len(blackImg)) THEN << PanicStep >>
    ELSE << AppendTo("black"),
            Send(writeRAMBW, blackImg \o blackPad(blackImg)) >> \o
         IF RepeatPanics(BufSize - Len(redImg)) THEN << PanicStep >>
         ELSE << AppendTo("red"),
                 Send(writeRAMRed, redImg \o redPad(redImg)) >>
              \o turnOnDisplay

\* A step that reaches the hardware.
IsCall(s) == s.k # "append"

\* Display.Upload on buffers without spare capacity, whose appends write
\* to no memory but their own result: the calls it makes.
UploadScript(blackImg, redImg) ==
    SelectSeq(UploadSteps(blackImg, redImg), IsCall)

\* Display.Sleep
\* Mutant: Sleep waits for the panel after the command.
SleepScriptWaiting == << Send(deepSleepMode, <<1>>), Wait >>

SleepScript == << Send(deepSleepMode, <<1>>) >>

(* ---------------------------- call frames ------------------------------ *)

IdleFrame ==
    [ pc |-> "idle", task |-> <<>>, cmd |-> NoCmd, p |-> <<>>, i |-> 0,
      n |-> 0, sent |-> 0, err |-> "nil", seq |-> 0,
      ret |-> [n |-> 0, err |-> "nil"], lastRead |-> "-" ]

\* A run-time panic unwinds the caller: the operation in progress is
\* abandoned and nothing of it runs any more.
PanicIn(fr) ==
    [fr EXCEPT !.pc = "panic", !.task = <<>>, !.err = "panic"]

\* The caller moves on to the first of `steps`; the operation returns when
\* none is left.
Begin(fr, steps) ==
    IF steps = <<>>
    THEN [fr EXCEPT !.pc = "idle", !.task = <<>>]
    ELSE LET s == Head(steps)
             g == [fr EXCEPT !.task = steps, !.cmd = s.op, !.p = s.data,
                             !.i = 0, !.n = 0, !.sent = 0, !.err = "nil"]
         IN  CASE s.k = "send" -> [g EXCEPT !.pc = "wc_lock", !.seq = fr.seq + 1]
               [] s.k = "data" -> [g EXCEPT !.pc = "bw_loop", !.seq = fr.seq + 1]
               [] s.k = "wait" -> [g EXCEPT !.pc = "wait_read"]
               [] s.k = "append" -> [g EXCEPT !.pc = "append"]
               [] s.k = "panic" -> PanicIn(g)
               [] OTHER        -> [g EXCEPT !.pc = "rst_out"]

\* Mutant: sendCommand gives up the rest of the operation on an error.
ReturnAbort(fr, n, err) ==
    Begin([fr EXCEPT !.ret = [n |-> n, err |-> err]],
          IF err = "nil" THEN Tail(fr.task) ELSE <<>>)

\* The Write of the step in progress returns (n, err) to sendCommand (which
\* only logs an error) or to the caller of DataWriter().Write.
Return(fr, n, err) ==
    Begin([fr EXCEPT !.ret = [n |-> n, err |-> err]], Tail(fr.task))

\* commandWriter.Write adds the opcode byte to the count of the data path.
Opcode(fr) == IF fr.cmd = NoCmd THEN 0 ELSE 1

\* j of batchedWriter.Write
BatchEnd(i, len, batchSize) ==
    IF i + batchSize > len THEN len ELSE i + batchSize

\* Mutant: the loop advances by one byte instead of one batch.
NextBatchByOne(i, batchSize) == i + 1

\* i += b.batchSize
NextBatch(i, batchSize) == i + batchSize

\* p[i:j], the argument of dataWriter.Write
Chunk(fr) == SubSeq(fr.p, fr.i + 1, BatchEnd(fr.i, Len(fr.p), txLimit))

\* The loop test of batchedWriter.Write and the slice expression p[i:j],
\* which panics when j < i.
BwLoop(fr) ==
    IF fr.i < Len(fr.p)
    THEN IF BatchEnd(fr.i, Len(fr.p), txLimit) < fr.i
         THEN PanicIn(fr)
         ELSE [fr EXCEPT !.pc = "dw_lock"]
    ELSE Return(fr, Opcode(fr) + fr.sent, "nil")

\* batchedWriter.Write after dst.Write returned (n, err).
BwAfterWrite(fr) ==
    IF fr.err # "nil"
    THEN Return(fr, Opcode(fr) + fr.n + fr.sent, fr.err)
    ELSE BwLoop([fr EXCEPT !.n = fr.n + fr.sent,
                           !.i = NextBatch(fr.i, txLimit)])

\* Mutant: commandWriter.Write sends the payload whatever writeCommand
\* returned.
CwAfterCommandGoesOn(fr) ==
    IF Len(fr.p) = 0 THEN Return(fr, 1, fr.err) ELSE BwLoop(fr)

\* commandWriter.Write after writeCommand returned err.
CwAfterCommand(fr) ==
    IF fr.err # "nil"
    THEN Return(fr, 1, fr.err)
    ELSE IF Len(fr.p) = 0
         THEN Return(fr, 1, "nil")
         ELSE BwLoop(fr)

(* ------------------------------ history -------------------------------- *)

\* The positions inside commandWriter.writeCommand and dataWriter.Write that
\* follow the Lock.
WcLabels == {"wc_dc", "wc_cs", "wc_tx", "wc_defer", "wc_unlock"}

DwLabels == {"dw_cs", "dw_dc", "dw_tx", "dw_defer", "dw_unlock"}

\* An event of the history: who acted, on what, through which writer and for
\* which of its calls; a transfer records the levels of the chip-select and
\* data/command lines it happens under.
Ev(c, kind, lvl, bytes, ok) ==
    [ who |-> c, kind |-> kind, lvl |-> lvl, bytes |-> bytes, ok |-> ok,
      op |-> call[c].cmd, seq |-> call[c].seq,
      path |-> IF call[c].pc \in WcLabels THEN "command"
               ELSE IF call[c].pc \in DwLabels THEN "data" ELSE "-",
      cs |-> IF kind = "tx" THEN cs ELSE "-",
      dc |-> IF kind = "tx" THEN dc ELSE "-" ]

\* Whether a pin write ("pin") or a transfer ("tx") succeeds.
Outcomes(kind) ==
    IF kind \in failing /\ faults < MaxFaults THEN {TRUE, FALSE} ELSE {TRUE}

Fault(ok) == faults' = IF ok THEN faults ELSE faults + 1

(* --------------------------- hardware.go ------------------------------- *)

\* The level writeCommand gives the data/command line.
dcForCommand == Low

\* Mutant: payload bytes are sent with the line still low.
dcForDataLow == Low

\* The level dataWriter.Write gives the data/command line.
dcForData == High

At(c, label) == call[c].pc = label

Goto(c, fr) == call' = [call EXCEPT ![c] = fr]

\* Mutant: a Lock that does not wait for the holder to unlock.
LockWithoutWaiting(c) == mut' = c

\* w.mut.Lock()
Lock(c) == mut = 0 /\ mut' = c

\* w.mut.Unlock(), deferred
Unlock(c) == mut' = 0

\* commandWriter.writeCommand: w.mut.Lock()
WcLock(c) ==
    /\ At(c, "wc_lock")
    /\ Lock(c)
    /\ Goto(c, [call[c] EXCEPT !.pc = "wc_dc"])
    /\ UNCHANGED <<hwVars, cs, dc, rst, busy, curOp, dispState, called, faults, bus>>

\* commandWriter.writeCommand: w.dc.Out(gpio.Low)
WcDc(c) ==
    /\ At(c, "wc_dc")
    /\ \E ok \in Outcomes("pin") :
        /\ Fault(ok)
        /\ dc' = IF ok THEN dcForCommand ELSE dc
        /\ bus' = Append(bus, Ev(c, "dc", dcForCommand, <<>>, ok))
        /\ Goto(c, IF ok THEN [call[c] EXCEPT !.pc = "wc_cs"]
                         ELSE [call[c] EXCEPT !.pc = "wc_unlock", !.err = "pin"])
    /\ UNCHANGED <<hwVars, mut, cs, rst, busy, curOp, dispState, called>>

\* commandWriter.writeCommand: w.cs.Out(gpio.Low)
WcCs(c) ==
    /\ At(c, "wc_cs")
    /\ \E ok \in Outcomes("pin") :
        /\ Fault(ok)
        /\ cs' = IF ok THEN Low ELSE cs
        /\ bus' = Append(bus, Ev(c, "cs", Low, <<>>, ok))
        /\ Goto(c, IF ok THEN [call[c] EXCEPT !.pc = "wc_tx"]
                         ELSE [call[c] EXCEPT !.pc = "wc_unlock", !.err = "pin"])
    /\ UNCHANGED <<hwVars, mut, dc, rst, busy, curOp, dispState, called>>

\* commandWriter.writeCommand: w.c.Tx([]byte{p}, nil)
WcTx(c) ==
    /\ At(c, "wc_tx")
    /\ \E ok \in Outcomes("tx") :
        /\ Fault(ok)
        /\ bus' = Append(bus, Ev(c, "tx", "-", <<call[c].cmd>>, ok))
        /\ Goto(c, [call[c] EXCEPT !.pc = "wc_defer",
                                   !.err = IF ok THEN "nil" ELSE "tx"])
    /\ UNCHANGED <<hwVars, mut, cs, dc, rst, busy, curOp, dispState, called>>

\* commandWriter.writeCommand: the deferred w.cs.Out(gpio.High)
WcDefer(c) ==
    /\ At(c, "wc_defer")
    /\ \E ok \in Outcomes("pin") :
        /\ Fault(ok)
        /\ cs' = IF ok THEN High ELSE cs
        /\ bus' = Append(bus, Ev(c, "cs", High, <<>>, ok))
        /\ Goto(c, [call[c] EXCEPT !.pc = "wc_unlock",
                                   !.err = IF ok THEN @ ELSE "pin"])
    /\ UNCHANGED <<hwVars, mut, dc, rst, busy, curOp, dispState, called>>

\* commandWriter.writeCommand: the deferred w.mut.Unlock(); then the rest of
\* commandWriter.Write up to its next access to the hardware.
WcUnlock(c) ==
    /\ At(c, "wc_unlock")
    /\ Unlock(c)
    /\ Goto(c, CwAfterCommand(call[c]))
    /\ UNCHANGED <<hwVars, cs, dc, rst, busy, curOp, dispState, called, faults, bus>>

\* A caller of DataWriter().Write enters batchedWriter.Write.
BwEnter(c) ==
    /\ At(c, "bw_loop")
    /\ Goto(c, BwLoop(call[c]))
    /\ UNCHANGED <<hwVars, mut, cs, dc, rst, busy, curOp, dispState, called, faults, bus>>

\* dataWriter.Write: w.mut.Lock(), and the test of len(p) == 0
DwLock(c) ==
    /\ At(c, "dw_lock")
    /\ Lock(c)
    /\ Goto(c, IF Len(Chunk(call[c])) = 0
               THEN [call[c] EXCEPT !.pc = "dw_unlock", !.n = 0, !.err = "nil"]
               ELSE [call[c] EXCEPT !.pc = "dw_cs"])
    /\ UNCHANGED <<hwVars, cs, dc, rst, busy, curOp, dispState, called, faults, bus>>

\* dataWriter.Write: w.cs.Out(gpio.Low)
DwCs(c) ==
    /\ At(c, "dw_cs")
    /\ \E ok \in Outcomes("pin") :
        /\ Fault(ok)
        /\ cs' = IF ok THEN Low ELSE cs
        /\ bus' = Append(bus, Ev(c, "cs", Low, <<>>, ok))
        /\ Goto(c, IF ok THEN [call[c] EXCEPT !.pc = "dw_dc"]
                         ELSE [call[c] EXCEPT !.pc = "dw_unlock",
                                              !.n = 0, !.err = "pin"])
    /\ UNCHANGED <<hwVars, mut, dc, rst, busy, curOp, dispState, called>>

\* dataWriter.Write: w.dc.Out(gpio.High)
DwDc(c) ==
    /\ At(c, "dw_dc")
    /\ \E ok \in Outcomes("pin") :
        /\ Fault(ok)
        /\ dc' = IF ok THEN dcForData ELSE dc
        /\ bus' = Append(bus, Ev(c, "dc", dcForData, <<>>, ok))
        /\ Goto(c, IF ok THEN [call[c] EXCEPT !.pc = "dw_tx"]
                         ELSE [call[c] EXCEPT !.pc = "dw_unlock",
                                              !.n = 0, !.err = "pin"])
    /\ UNCHANGED <<hwVars, mut, cs, rst, busy, curOp, dispState, called>>

\* dataWriter.Write: the tests on txLimit and the w.c.Tx call
DwTx(c) ==
    /\ At(c, "dw_tx")
    /\ LET q == Chunk(call[c]) IN
       IF txLimit <= 0
       THEN /\ Goto(c, [call[c] EXCEPT !.pc = "dw_defer", !.n = 0,
                                       !.err = "short"])
            /\ UNCHANGED <<faults, bus>>
       ELSE \E ok \in Outcomes("tx") :
            /\ Fault(ok)
            /\ IF Len(q) > txLimit
               THEN /\ bus' = Append(bus, Ev(c, "tx", "-",
                                             SubSeq(q, 1, txLimit), ok))
                    /\ Goto(c, [call[c] EXCEPT
                                   !.pc = "dw_defer", !.n = txLimit,
                                   !.err = IF ok THEN "short" ELSE "tx"])
               ELSE /\ bus' = Append(bus, Ev(c, "tx", "-", q, ok))
                    /\ Goto(c, [call[c] EXCEPT
                                   !.pc = "dw_defer", !.n = Len(q),
                                   !.err = IF ok THEN "nil" ELSE "tx"])
    /\ UNCHANGED <<hwVars, mut, cs, dc, rst, busy, curOp, dispState, called>>

\* dataWriter.Write: the deferred w.cs.Out(gpio.High)
DwDefer(c) ==
    /\ At(c, "dw_defer")
    /\ \E ok \in Outcomes("pin") :
        /\ Fault(ok)
        /\ cs' = IF ok THEN High ELSE cs
        /\ bus' = Append(bus, Ev(c, "cs", High, <<>>, ok))
        /\ Goto(c, [call[c] EXCEPT !.pc = "dw_unlock",
                                   !.err = IF ok THEN @ ELSE "pin"])
    /\ UNCHANGED <<hwVars, mut, dc, rst, busy, curOp, dispState, called>>

\* dataWriter.Write: the deferred w.mut.Unlock(); then batchedWriter.Write
\* up to its next call of dst.Write or its return.
DwUnlock(c) ==
    /\ At(c, "dw_unlock")
    /\ Unlock(c)
    /\ Goto(c, BwAfterWrite(call[c]))
    /\ UNCHANGED <<hwVars, cs, dc, rst, busy, curOp, dispState, called, faults, bus>>

(* ---------------------------- display.go ------------------------------- *)

\* Display.Reset: d.hw.rst.Out(level); its error is dropped.
RstStep(c) ==
    /\ At(c, "rst_out")
    /\ LET l == Head(call[c].task).lvl IN
       \E ok \in Outcomes("pin") :
        /\ Fault(ok)
        /\ rst' = IF ok THEN l ELSE rst
        /\ bus' = Append(bus, Ev(c, "rst", l, <<>>, ok))
        /\ Goto(c, Begin(call[c], Tail(call[c].task)))
    /\ UNCHANGED <<hwVars, mut, cs, dc, busy, curOp, dispState, called>>

\* Display.waitUntilIdle: d.hw.busy.Read()
WaitRead(c) ==
    /\ At(c, "wait_read")
    /\ Goto(c, [call[c] EXCEPT !.pc = "wait_test", !.lastRead = busy])
    /\ UNCHANGED <<hwVars, mut, cs, dc, rst, busy, curOp, dispState, called, faults, bus>>

\* Mutant: the loop polls while the line is high.
StillBusyWhileHigh(level) == level = High

\* Mutant: the loop never sees the line released.
StillBusyForever(level) == level \in {Low, High}

\* The loop condition of waitUntilIdle.
StillBusy(level) == level = Low

\* Display.waitUntilIdle: poll again while the read was low, else return.
WaitTest(c) ==
    /\ At(c, "wait_test")
    /\ IF StillBusy(call[c].lastRead)
       THEN /\ Goto(c, [call[c] EXCEPT !.pc = "wait_read"])
            /\ UNCHANGED bus
       ELSE /\ Goto(c, Begin(call[c], Tail(call[c].task)))
            /\ bus' = Append(bus, Ev(c, "idle", call[c].lastRead, <<>>, TRUE))
    /\ UNCHANGED <<hwVars, mut, cs, dc, rst, busy, curOp, dispState, called, faults>>

\* The panel controller raises or drops the busy line.  The line is read
\* only by waitUntilIdle, so its changes are followed only while a caller
\* is polling.
BusyChange ==
    /\ \E c \in Callers : At(c, "wait_read")
    /\ busy' = IF busy = Low THEN High ELSE Low
    /\ UNCHANGED <<hwVars, mut, cs, dc, rst, call, curOp, dispState, called, faults, bus>>

\* One step of a call in progress.
Step(c) ==
    \/ WcLock(c) \/ WcDc(c) \/ WcCs(c) \/ WcTx(c) \/ WcDefer(c) \/ WcUnlock(c)
    \/ DwLock(c) \/ DwCs(c) \/ DwDc(c) \/ DwTx(c) \/ DwDefer(c) \/ DwUnlock(c)

(* ------------------------------ image.go ------------------------------- *)
(* A colour is its RGBA value; a Color of this package also carries its     *)
(* role C (0 white, 1 black, 2 highlight).  Every colour here has 16-bit    *)
(* channels of the form 0x101 * v, as color.RGBA, color.Gray and the        *)
(* colours of this package give them; a channel is written as its v in      *)
(* 0..255.  Rectangles have their origin at (0, 0) and are given by their   *)
(* width Dx and height Dy.                                                  *)

\* Color.RGBA
RGBA(C) ==
    CASE C = 0 -> <<255, 255, 255, 255>>
      [] C = 1 -> <<0, 0, 0, 255>>
      [] C = 2 -> <<255, 0, 0, 255>>
      [] OTHER -> <<0, 0, 0, 0>>

\* Color{C}
Color(C) == [native |-> TRUE, C |-> C, rgba |-> RGBA(C)]

White == Color(0)

BlackColor == Color(1)

HighlightColor == Color(2)

defaultPalette == <<White, BlackColor, HighlightColor>>

\* color.RGBA values of pure white, black and red.
RGBAColors ==
    << [native |-> FALSE, C |-> 0, rgba |-> <<255, 255, 255, 255>>],
       [native |-> FALSE, C |-> 0, rgba |-> <<0, 0, 0, 255>>],
       [native |-> FALSE, C |-> 0, rgba |-> <<255, 0, 0, 255>>] >>

\* A colour of another type (color.Gray16, color.RGBA), opaque, from its
\* 8-bit channels.
Foreign(r, g, b) ==
    [native |-> FALSE, C |-> 0, rgba |-> <<r, g, b, 255>>]

\* A uint32 n that a distance of colours can take is written as the pair
\* <<n \div 16512, n % 16512>> or, where the second part of a sum runs past
\* 16512, as a pair of the same order: for channels 0x101 * a and 0x101 * b
\* the term (d * d) >> 2 is 16512 * e * e + (e * e) \div 4 with e = a - b, and
\* the second parts of two sums differ by less than 16512 wherever the
\* first parts differ.
Less(m, n) == m[1] < n[1] \/ (m[1] = n[1] /\ m[2] < n[2])

\* 1<<32 - 1
MaxUint32 == <<260111, 14463>>

\* sqDiff of image/color
sqDiff(x, y) == <<(x - y) * (x - y), ((x - y) * (x - y)) \div 4>>

\* sum := sqDiff(cr, vr) + sqDiff(cg, vg) + sqDiff(cb, vb) + sqDiff(ca, va)
ColorDistance(c, v) ==
    LET d(k) == sqDiff(c.rgba[k], v.rgba[k])
    IN  << d(1)[1] + d(2)[1] + d(3)[1] + d(4)[1],
           d(1)[2] + d(2)[2] + d(3)[2] + d(4)[2] >>

\* The loop of color.Palette.Index from entry i on (entries count from 0).
RECURSIVE IndexLoop(_, _, _, _, _)
IndexLoop(p, c, i, ret, bestSum) ==
    IF i >= Len(p) THEN ret
    ELSE LET sum == ColorDistance(c, p[i + 1])
         IN  IF Less(sum, bestSum)
             THEN IF sum = <<0, 0>> THEN i ELSE IndexLoop(p, c, i + 1, i, sum)
             ELSE IndexLoop(p, c, i + 1, ret, bestSum)

\* Mutant: the palette is not searched, its first entry is taken.
IndexOfFirst(p, c) == 0

\* color.Palette.Index
Index(p, c) == IndexLoop(p, c, 0, 0, MaxUint32)

\* color.Palette.Convert; an empty palette has no entry to return.
Convert(p, c) == p[Index(p, c) + 1]

\* Integer division as Go rounds it, towards zero.
GoDiv(a, b) == IF a >= 0 THEN a \div b ELSE -((-a) \div b)

\* byte(0x80 >> (uint32(x) % 8))
BitMask(x) == 2 ^ (7 - (x % 8))

HasBit(b, bit) == (b \div bit) % 2 = 1

\* b | bit
OrBit(b, bit) == IF HasBit(b, bit) THEN b ELSE b + bit

\* b &^ bit
ClearBit(b, bit) == IF HasBit(b, bit) THEN b - bit ELSE b

\* NewImage
NewImage(r) ==
    LET widthByte == IF r.Dx % 8 # 0 THEN r.Dx \div 8 + 1 ELSE r.Dx \div 8
        bufSize   == r.Dy * widthByte
    IN  [ Black |-> Repeat(255, bufSize), Highlight |-> Repeat(0, bufSize),
          Rect |-> r, rectWidthBytes |-> widthByte,
          Palette |-> defaultPalette, ok |-> TRUE ]

DisplayBounds == [Dx |-> DisplayWidth, Dy |-> DisplayHeight]

\* The Image the variables hold.
Buffer ==
    [ Black |-> Black, Highlight |-> Highlight, Rect |-> Rect,
      rectWidthBytes |-> rectWidthBytes, Palette |-> Palette, ok |-> TRUE ]

\* (image.Point{x, y}).In(r)
In(x, y, r) == 0 <= x /\ x < r.Dx /\ 0 <= y /\ y < r.Dy

\* px := (x / 8) + (y * i.rectWidthBytes)
PixelByte(x, y, widthBytes) == GoDiv(x, 8) + y * widthBytes

\* Mutant: black and white are swapped in the black plane.
PlaneBitsSwapped(img, px, bit, C) ==
    CASE C = 0 -> [img EXCEPT !.Black[px + 1] = ClearBit(@, bit),
                              !.Highlight[px + 1] = ClearBit(@, bit)]
      [] C = 1 -> [img EXCEPT !.Black[px + 1] = OrBit(@, bit),
                              !.Highlight[px + 1] = ClearBit(@, bit)]
      [] C = 2 -> [img EXCEPT !.Black[px + 1] = OrBit(@, bit),
                              !.Highlight[px + 1] = OrBit(@, bit)]
      [] OTHER -> img

\* Mutant: a pixel's write fills the whole byte of the black plane.
PlaneBitsWholeByte(img, px, bit, C) ==
    CASE C = 0 -> [img EXCEPT !.Black[px + 1] = 255,
                              !.Highlight[px + 1] = ClearBit(@, bit)]
      [] C = 1 -> [img EXCEPT !.Black[px + 1] = 0,
                              !.Highlight[px + 1] = ClearBit(@, bit)]
      [] C = 2 -> [img EXCEPT !.Black[px + 1] = 255,
                              !.Highlight[px + 1] = OrBit(@, bit)]
      [] OTHER -> img

\* The switch of Set and of SetColorIndex on the role of the colour.
PlaneBits(img, px, bit, C) ==
    CASE C = 0 -> [img EXCEPT !.Black[px + 1] = OrBit(@, bit),
                              !.Highlight[px + 1] = ClearBit(@, bit)]
      [] C = 1 -> [img EXCEPT !.Black[px + 1] = ClearBit(@, bit),
                              !.Highlight[px + 1] = ClearBit(@, bit)]
      [] C = 2 -> [img EXCEPT !.Black[px + 1] = OrBit(@, bit),
                              !.Highlight[px + 1] = OrBit(@, bit)]
      [] OTHER -> img

\* The planes are indexed at px: an index below zero or past the end of a
\* plane panics, and the image is left as it was.
WritePixel(img, px, bit, C) ==
    IF ~img.ok THEN img
    ELSE IF C \notin {0, 1, 2} THEN img
    ELSE IF px < 0 \/ px >= Len(img.Black) \/ px >= Len(img.Highlight)
         THEN [img EXCEPT !.ok = FALSE]
         ELSE PlaneBits(img, px, bit, C)

\* Image.SetColorIndex
SetColorIndex(img, x, y, index) ==
    LET px == PixelByte(x, y, img.rectWidthBytes)
    IN  IF px >= Len(img.Black) THEN img
        ELSE WritePixel(img, px, BitMask(x), index)

\* Image.Set
Set(img, x, y, c) ==
    LET px == PixelByte(x, y, img.rectWidthBytes)
        cc == IF c.native THEN c ELSE Convert(img.Palette, c)
    IN  IF px >= Len(img.Black) THEN img
        ELSE WritePixel(img, px, BitMask(x), cc.C)

\* What a call that panics yields in place of a colour.
Panic == [native |-> FALSE, C |-> -1, rgba |-> <<0, 0, 0, 0>>]

\* Image.At; it panics when a plane is indexed outside its length.
ImageAt(img, x, y) ==
    IF ~In(x, y, img.Rect) THEN White
    ELSE LET px  == GoDiv(x, 8) + y * DisplayWidthBytes
             bit == BitMask(x)
         IN  IF px < 0 \/ px >= Len(img.Black) \/ px >= Len(img.Highlight)
             THEN Panic
             ELSE IF HasBit(img.Highlight[px + 1], bit) THEN HighlightColor
             ELSE IF HasBit(img.Black[px + 1], bit) THEN White
             ELSE BlackColor

\* Mutant: Reset inverts the black plane.
ImageResetInvert(plane) == [k \in DOMAIN plane |-> 255 - plane[k]]

\* Mutant: Reset gives the black plane the size of the panel's buffer.
ImageResetToPanel(plane) == Repeat(255, BufSize)

\* Mutant: Reset leaves the highlight plane as it is.
ImageResetKeep(plane) == plane

\* Image.Reset: both planes redrawn blank at their own lengths.
ImageResetBlack(plane) == Repeat(255, Len(plane))

ImageResetHighlight(plane) == Repeat(0, Len(plane))

ImageReset(img) ==
    [img EXCEPT !.Black = ImageResetBlack(img.Black),
                !.Highlight = ImageResetHighlight(img.Highlight)]

\* A source image: its bounds, the colours its pixels take (its Palette when
\* it is an *image.Paletted) and which of them each pixel has: colour
\* `paint` everywhere, or colour (x + y) mod n at (x, y) when paint = n, or
\* the last colour at the last pixel and the first colour elsewhere when
\* paint = n + 1.
Source(r, paletted, palette, paint) ==
    [Rect |-> r, paletted |-> paletted, Palette |-> palette, paint |-> paint]

\* image.Paletted.ColorIndexAt, and the like of it for other sources.
ColorIndexAt(src, x, y) ==
    IF ~In(x, y, src.Rect) THEN 0
    ELSE IF src.paint < Len(src.Palette) THEN src.paint
    ELSE IF src.paint > Len(src.Palette)
         THEN IF x = src.Rect.Dx - 1 /\ y = src.Rect.Dy - 1
              THEN Len(src.Palette) - 1 ELSE 0
    ELSE (x + y) % Len(src.Palette)

\* src.At(x, y) for a point of the source.
SrcAt(src, x, y) == src.Palette[ColorIndexAt(src, x, y) + 1]

\* The sequence s without its entry i (entries count from 0).
Without(s, i) == SubSeq(s, 1, i) \o SubSeq(s, i + 2, Len(s))

\* The loop of exactColorIndex: p after the colours from k on have each
\* claimed the nearest entry still left in ip.
RECURSIVE ClaimLoop(_, _, _, _)
ClaimLoop(colors, k, ip, p) ==
    IF k > Len(colors) THEN p
    ELSE LET ci == Index(ip, colors[k])
         IN  ClaimLoop(colors, k + 1, Without(ip, ci), Append(p, ip[ci + 1]))

\* exactColorIndex
exactColorIndex(src) ==
    LET colors == <<Foreign(255, 255, 255), Foreign(0, 0, 0), Foreign(255, 0, 0)>>
        p == ClaimLoop(colors, 1, src.Palette, <<>>)
    IN  [ white |-> Index(src.Palette, p[1]), black |-> Index(src.Palette, p[2]),
          highlight |-> Index(src.Palette, p[3]) ]

\* The body of the loops of drawExactColors at pixel (x, y).
ExactPixel(img, src, roles, x, y) ==
    LET idx == ColorIndexAt(src, x, y)
    IN  CASE idx = roles.white     -> SetColorIndex(img, x, y, 0)
          [] idx = roles.black     -> SetColorIndex(img, x, y, 1)
          [] idx = roles.highlight -> SetColorIndex(img, x, y, 2)
          [] OTHER                 -> img

\* The loops of drawExactColors over the w x h pixels at the origin, row by
\* row, from pixel k on.
RECURSIVE ExactLoop(_, _, _, _, _, _)
ExactLoop(img, src, roles, w, h, k) ==
    IF k >= w * h \/ ~img.ok THEN img
    ELSE ExactLoop(ExactPixel(img, src, roles, k % w, k \div w),
                   src, roles, w, h, k + 1)

\* Image.drawExactColors
drawExactColors(img, src) ==
    ExactLoop(img, src, exactColorIndex(src),
              DisplayBounds.Dx, DisplayBounds.Dy, 0)

Min(a, b) == IF a < b THEN a ELSE b

\* The loop of draw.Draw over the w x h pixels that dst and src share, from
\* pixel k on: dst.Set(x, y, src.At(x, y)).
RECURSIVE SetLoop(_, _, _, _, _)
SetLoop(dst, src, w, h, k) ==
    IF k >= w * h \/ ~dst.ok THEN dst
    ELSE SetLoop(Set(dst, k % w, k \div w, SrcAt(src, k % w, k \div w)),
                 src, w, h, k + 1)

\* draw.Draw(dst, dst.Bounds(), src, image.Point{0, 0}, draw.Src)
DrawSrc(dst, src) ==
    SetLoop(dst, src, Min(dst.Rect.Dx, src.Rect.Dx),
            Min(dst.Rect.Dy, src.Rect.Dy), 0)

\* The test of Draw and Encode for the exact path.
IsExact(src) == src.paletted /\ Len(src.Palette) = 3

\* Display.Draw
Draw(img, src) ==
    IF IsExact(src) THEN drawExactColors(img, src) ELSE DrawSrc(img, src)

\* convert
convert(src, p) == DrawSrc([NewImage(DisplayBounds) EXCEPT !.Palette = p], src)

\* DrawAndRefreshImages: the plane d.buffer.Black is given,
DrawAndRefreshImagesBlack(black) ==
    convert(black, <<White, BlackColor>>).Black

\* Mutant: the red/yellow image is converted with the palette of the
\* black one.
DrawAndRefreshImagesHighlightAsBlack(redyellow) ==
    convert(redyellow, <<White, BlackColor>>).Highlight

\* and the plane d.buffer.Highlight is given.
DrawAndRefreshImagesHighlight(redyellow) ==
    convert(redyellow, <<White, HighlightColor>>).Highlight

\* Encode up to its writes: a new image of the bounds of the source, drawn
\* from it.
Encode(src) ==
    IF IsExact(src) THEN drawExactColors(NewImage(src.Rect), src)
    ELSE DrawSrc(NewImage(src.Rect), src)

(* ------------------------------- setup --------------------------------- *)

\* The steps of newHardware that can fail, in the order it takes them.
SetupSteps ==
    << "host.Init", "dc.ByName", "dc.Out", "cs.ByName", "cs.Out",
       "rst.ByName", "rst.Out", "busy.ByName", "busy.In", "spireg.Open",
       "port.Connect" >>

\* port.Close is called only to give up a port that did not connect.
CanFail == { SetupSteps[k] : k \in DOMAIN SetupSteps } \cup {"port.Close"}

\* newHardware from step k on: the first step that fails ends it with an
\* error and no hardware.
RECURSIVE newHardwareFrom(_, _)
newHardwareFrom(failed, k) ==
    IF k > Len(SetupSteps) THEN [hw |-> "hardware", err |-> "nil"]
    ELSE IF SetupSteps[k] \in failed
         THEN IF SetupSteps[k] = "port.Connect" /\ "port.Close" \in failed
              THEN [hw |-> "nil", err |-> "port.Close"]
              ELSE [hw |-> "nil", err |-> SetupSteps[k]]
         ELSE newHardwareFrom(failed, k + 1)

newHardware(failed) == newHardwareFrom(failed, 1)

\* Mutant: New builds the Display whatever newHardware returned.
NewIgnoringError(failed) ==
    [d |-> "Display", err |-> newHardware(failed).err]

\* New
New(failed) ==
    IF newHardware(failed).err # "nil"
    THEN [d |-> "nil", err |-> newHardware(failed).err]
    ELSE [d |-> "Display", err |-> "nil"]

\* What New leaves when no step fails.
Built == [failed |-> {}, d |-> "Display", err |-> "nil"]

(* --------------------------- operations -------------------------------- *)

\* The buffers a caller hands to Upload: every length up to BufSize, with
\* bytes that differ from both padding bytes and from each other.
SampleBuffer(base, len) == [k \in 1..len |-> base + k]

NoArgs ==
    [name |-> "none", blackImg |-> <<>>, redImg |-> <<>>,
     blackArr |-> <<>>, redArr |-> <<>>]

\* The DisplayState an operation leaves the panel in: Init configures it,
\* Sleep puts it to sleep, a bare Reset leaves it unconfigured, an upload
\* returns it to the state it was in.
StateAfter(name, state) ==
    CASE name = "Init"  -> "Idle"
      [] name = "Sleep" -> "Asleep"
      [] name = "Reset" -> "Uninitialized"
      [] OTHER          -> state

\* The display's caller starts `script` as the operation args.name; the
\* buffers args.blackImg and args.redImg it hands over are slices of its
\* arrays args.blackArr and args.redArr, which reach from the first byte of
\* the slice to its capacity.
RunWith(args, script) ==
    /\ At(1, "idle")
    /\ curOp' = args
    /\ dispState' = IF dispState = "-" THEN dispState
                    ELSE StateAfter(curOp.name, dispState)
    /\ bus' = <<>>
    /\ Goto(1, Begin(IdleFrame, script))
    /\ UNCHANGED <<txLimit, failing, mut, cs, dc, rst, busy, called, faults,
                   Rect, rectWidthBytes, Palette, setup>>

\* An operation on buffers that fill their arrays (len = cap), as make
\* and NewImage allocate them.
Run(name, blackImg, redImg, script) ==
    RunWith([name |-> name, blackImg |-> blackImg, redImg |-> redImg,
             blackArr |-> blackImg, redArr |-> redImg], script)

CallInit ==
    /\ Run("Init", <<>>, <<>>, InitScript)
    /\ UNCHANGED <<Black, Highlight, last>>

CallReset ==
    /\ Run("Reset", <<>>, <<>>, Reset)
    /\ UNCHANGED <<Black, Highlight, last>>

CallUpload ==
    \E lb \in 0..BufSize, lr \in 0..BufSize :
        LET blackImg == SampleBuffer(0, lb)
            redImg   == SampleBuffer(128, lr)
        IN  /\ Run("Upload", blackImg, redImg, UploadScript(blackImg, redImg))
            /\ UNCHANGED <<Black, Highlight, last>>

\* Mutant: Refresh hands the planes to Upload the wrong way round.
CallRefreshSwapped ==
    /\ Run("Refresh", Highlight, Black, UploadScript(Highlight, Black))
    /\ UNCHANGED <<Black, Highlight, last>>

\* Display.Refresh
CallRefresh ==
    /\ Run("Refresh", Black, Highlight, UploadScript(Black, Highlight))
    /\ UNCHANGED <<Black, Highlight, last>>

\* Display.Clear: d.buffer.Reset(), then d.Refresh(); rec is what is kept
\* of the call.
Clear(rec) ==
    /\ Black' = ImageReset(Buffer).Black
    /\ Highlight' = ImageReset(Buffer).Highlight
    /\ Run("Clear", Black', Highlight', UploadScript(Black', Highlight'))
    /\ last' = rec

CallClear == Clear(last)

CallSleep ==
    /\ Run("Sleep", <<>>, <<>>, SleepScript)
    /\ UNCHANGED <<Black, Highlight, last>>

\* The underlying array arr of a slice of length len after
\* append(slice, pad...): the padding is written in place behind the slice
\* when the capacity Len(arr) holds it, and into a fresh array otherwise.
appendInto(arr, len, pad) ==
    IF len + Len(pad) <= Len(arr)
    THEN [k \in 1..Len(arr) |->
             IF k > len /\ k <= len + Len(pad) THEN pad[k - len] ELSE arr[k]]
    ELSE arr

\* Display.Upload: append(blackImg, blackPad...) and append(redImg,
\* redPad...), evaluated on the caller's buffers.
AppendStep(c) ==
    /\ At(c, "append")
    /\ curOp' =
         IF Head(call[c].task).lvl = "black"
         THEN [curOp EXCEPT !.blackArr =
                  appendInto(@, Len(curOp.blackImg), blackPad(curOp.blackImg))]
         ELSE [curOp EXCEPT !.redArr =
                  appendInto(@, Len(curOp.redImg), redPad(curOp.redImg))]
    /\ Goto(c, Begin(call[c], Tail(call[c].task)))
    /\ UNCHANGED <<hwVars, mut, cs, dc, rst, busy, dispState, called, faults, bus>>

\* The lengths of the buffers handed to Upload: empty, one byte short of
\* a plane, a whole plane, and one byte more than a plane.
UploadLens == {0, BufSize - 1, BufSize, BufSize + 1}

\* The capacities of a buffer of length len: none to spare, room for the
\* whole padding, and room for one byte beyond it.
Caps(len) == {cap \in {len, BufSize, BufSize + 1} : cap >= len}

\* Display.Upload on any two slices of the caller's arrays, also longer
\* than BufSize.
CallUploadSlices ==
    \E lb \in UploadLens, lr \in UploadLens :
        \E cb \in Caps(lb), cr \in Caps(lr) :
            LET blackArr == SampleBuffer(0, cb)
                redArr   == SampleBuffer(128, cr)
                blackImg == SubSeq(blackArr, 1, lb)
                redImg   == SubSeq(redArr, 1, lr)
            IN  /\ RunWith([name |-> "Upload",
                            blackImg |-> blackImg, redImg |-> redImg,
                            blackArr |-> blackArr, redArr |-> redArr],
                           UploadSteps(blackImg, redImg))
                /\ UNCHANGED <<Black, Highlight, last>>

\* Display.Refresh: Upload on the planes of the framebuffer themselves.
CallRefreshPlanes ==
    /\ RunWith([name |-> "Refresh",
                blackImg |-> Black, redImg |-> Highlight,
                blackArr |-> Black, redArr |-> Highlight],
               UploadSteps(Black, Highlight))
    /\ UNCHANGED <<Black, Highlight, last>>

(* ----------------------- calls on the image ---------------------------- *)

\* The variables no call on the image alone touches.
busVars == <<txLimit, failing, mut, cs, dc, rst, busy, call, curOp, dispState,
            called, faults, bus, setup>>

imgHdr == <<Rect, rectWidthBytes, Palette>>

\* A colour not read yet.
NoColor == [native |-> FALSE, C |-> -2, rgba |-> <<0, 0, 0, 0>>]

NoSource == Source([Dx |-> 0, Dy |-> 0], FALSE, <<>>, 0)

\* The record of a call on the image: its arguments, the planes before it,
\* whether it returned (ok) or panicked, what At read back after it, and
\* whether it is the first or the second such call in a row.
Called(op, x, y, c, src, red, ok) ==
    [op |-> op, x |-> x, y |-> y, c |-> c, src |-> src, red |-> red,
     ok |-> ok, at |-> NoColor, black |-> Black, highlight |-> Highlight,
     times |-> IF last.op = op THEN 2 ELSE 1]

NoCall ==
    [op |-> "NewImage", x |-> 0, y |-> 0, c |-> NoColor, src |-> NoSource,
     red |-> NoSource, ok |-> TRUE, at |-> NoColor, black |-> <<>>,
     highlight |-> <<>>, times |-> 1]

\* The image holds what NewImage or Encode left: the call under study comes
\* next.
Fresh == last.op \in {"NewImage", "Encode"}

\* The image is the display's buffer.
OfDisplay == Rect = DisplayBounds

\* The call under study comes next, or is call `op` made a second time.
FreshOrAfter(op) == Fresh \/ (last.op = op /\ last.times = 1)

Blue == Foreign(0, 0, 255)

\* Sources of the general path that leave a known content: all black, the
\* three colours in turn, or white with the last pixel highlight.
Patterns == { Source(Rect, FALSE, defaultPalette, paint) : paint \in {1, 3, 4} }

\* The coordinates handed to Set and SetColorIndex: inside the image, and
\* up to a byte's width and a row outside of it.
Xs == (0 - 8)..(Rect.Dx + 8)

Ys == (0 - 1)..(Rect.Dy + 1)

\* The colours handed to Set: the three of the package, and color.Black,
\* color.White and a blue of image/color.
SetColors ==
    {White, BlackColor, HighlightColor, Foreign(0, 0, 0),
     Foreign(255, 255, 255), Blue}

\* The images handed to Draw and DrawAndRefresh: of one pixel or of the
\* size of the panel, paletted (exact path) or not.
SrcPalettes ==
    { <<TRUE, defaultPalette>>,
      <<TRUE, <<BlackColor, HighlightColor, White>> >>,
      <<TRUE, <<Foreign(0, 0, 0), Foreign(255, 255, 255)>> >>,
      <<FALSE, <<White, BlackColor, HighlightColor, Blue>> >>,
      <<FALSE, <<Foreign(255, 200, 200), Foreign(128, 0, 0),
                 Foreign(128, 128, 128), Foreign(255, 255, 255)>> >> }

\* The colours of the palettes of three entries: white, black, red, blue
\* and a faint red that is nearer to white than to red.
Pink == Foreign(255, 200, 200)

PaletteColors ==
    {Foreign(255, 255, 255), Foreign(0, 0, 0), Foreign(255, 0, 0), Blue, Pink}

\* Paletted images of the size of the panel with every palette of three of
\* these colours, repeated colours included, in all their entries.
ExactSources ==
    { Source(DisplayBounds, TRUE, <<a, b, c>>, 3) :
        a \in PaletteColors, b \in PaletteColors, c \in PaletteColors }

DrawSources ==
    UNION { { Source(r, pp[1], pp[2], paint) : paint \in 0..Len(pp[2]) } :
            r \in {[Dx |-> 1, Dy |-> 1], DisplayBounds}, pp \in SrcPalettes }
        \cup ExactSources

\* The images handed to DrawAndRefresh: of the size of the panel, in all the
\* colours of their palette.
RefreshSources ==
    { Source(DisplayBounds, pp[1], pp[2], Len(pp[2])) : pp \in SrcPalettes }

\* The images handed to DrawAndRefreshImages: in the colours of this
\* package, all black, or white, black and red in turn; in colours of
\* another type (color.RGBA), white, black and red in turn.
PlaneSources ==
    { Source(DisplayBounds, FALSE, defaultPalette, 1),
      Source(DisplayBounds, FALSE, defaultPalette, 3),
      Source(DisplayBounds, FALSE, RGBAColors, 3) }

\* Encode(w1, w2, src) on a source of the size of the image.
CallEncode ==
    /\ At(1, "idle")
    /\ last.op = "NewImage"
    /\ curOp.name = "none"
    /\ \E src \in Patterns :
           LET img == Encode(src)
           IN  /\ img.ok
               /\ Black' = img.Black
               /\ Highlight' = img.Highlight
               /\ last' = Called("Encode", 0, 0, NoColor, src, NoSource, TRUE)
    /\ UNCHANGED <<busVars, imgHdr>>

\* Image.Set(x, y, c)
CallSet ==
    /\ At(1, "idle")
    /\ Fresh
    /\ \E x \in Xs, y \in Ys, c \in SetColors :
           LET img == Set(Buffer, x, y, c)
           IN  /\ Black' = img.Black
               /\ Highlight' = img.Highlight
               /\ last' = Called("Set", x, y, c, NoSource, NoSource, img.ok)
    /\ UNCHANGED <<busVars, imgHdr>>

\* Image.SetColorIndex(x, y, index)
CallSetColorIndex ==
    /\ At(1, "idle")
    /\ Fresh
    /\ \E x \in Xs, y \in Ys, index \in 0..2 :
           LET img == SetColorIndex(Buffer, x, y, index)
           IN  /\ Black' = img.Black
               /\ Highlight' = img.Highlight
               /\ last' = Called("SetColorIndex", x, y, Color(index),
                                 NoSource, NoSource, img.ok)
    /\ UNCHANGED <<busVars, imgHdr>>

\* Image.At(x, y), at the pixel the last Set or SetColorIndex was given.
CallAt ==
    /\ At(1, "idle")
    /\ last.op \in {"Set", "SetColorIndex"}
    /\ last.ok
    /\ last.at = NoColor
    /\ last' = [last EXCEPT !.at = ImageAt(Buffer, last.x, last.y)]
    /\ UNCHANGED <<busVars, imgHdr, Black, Highlight>>

\* Image.Reset()
CallImageReset ==
    /\ At(1, "idle")
    /\ FreshOrAfter("Reset")
    /\ Black' = ImageReset(Buffer).Black
    /\ Highlight' = ImageReset(Buffer).Highlight
    /\ last' = Called("Reset", 0, 0, NoColor, NoSource, NoSource, TRUE)
    /\ UNCHANGED <<busVars, imgHdr>>

\* Display.Clear on a buffer with content, once and a second time.
CallClearTwice ==
    /\ OfDisplay
    /\ FreshOrAfter("Clear")
    /\ Clear(Called("Clear", 0, 0, NoColor, NoSource, NoSource, TRUE))

\* Display.Upload(nil, nil)
CallUploadEmpty ==
    /\ OfDisplay
    /\ Fresh
    /\ Run("Upload", <<>>, <<>>, UploadScript(<<>>, <<>>))
    /\ UNCHANGED <<Black, Highlight, last>>

\* Display.Draw(img)
CallDraw ==
    /\ At(1, "idle")
    /\ Fresh
    /\ OfDisplay
    /\ \E src \in DrawSources :
           LET img == Draw(Buffer, src)
           IN  /\ Black' = img.Black
               /\ Highlight' = img.Highlight
               /\ last' = Called("Draw", 0, 0, NoColor, src, NoSource, img.ok)
    /\ UNCHANGED <<busVars, imgHdr>>

\* Display.DrawAndRefresh(img): d.Draw(img), then d.Refresh()
CallDrawAndRefresh ==
    /\ Fresh
    /\ OfDisplay
    /\ \E src \in RefreshSources :
           LET img == Draw(Buffer, src)
           IN  /\ img.ok
               /\ Black' = img.Black
               /\ Highlight' = img.Highlight
               /\ last' = Called("DrawAndRefresh", 0, 0, NoColor, src,
                                 NoSource, TRUE)
    /\ Run("DrawAndRefresh", Black', Highlight',
           UploadScript(Black', Highlight'))

\* Display.DrawAndRefreshImages(black, redyellow): the Black plane of the
\* one converted image, the Highlight plane of the other, then d.Refresh()
CallDrawAndRefreshImages ==
    /\ Fresh
    /\ OfDisplay
    /\ \E black \in PlaneSources, redyellow \in PlaneSources :
           /\ Black' = DrawAndRefreshImagesBlack(black)
           /\ Highlight' = DrawAndRefreshImagesHighlight(redyellow)
           /\ last' = Called("DrawAndRefreshImages", 0, 0, NoColor, black,
                             redyellow, TRUE)
    /\ Run("DrawAndRefreshImages", Black', Highlight',
           UploadScript(Black', Highlight'))

\* New(p), with the steps that fail chosen beforehand.
CallNew ==
    /\ setup.d = "-"
    /\ setup' = [setup EXCEPT !.d = New(setup.failed).d,
                              !.err = New(setup.failed).err]
    /\ UNCHANGED <<txLimit, failing, mut, cs, dc, rst, busy, Black, Highlight,
                   Rect, rectWidthBytes, Palette, last, call, curOp,
                   dispState, called, faults, bus>>

\* The payload of a concurrent caller: bytes that name the caller and the
\* position.
Payload(c, len) == [k \in 1..len |-> 16 * c + k]

CmdSet == {writeRAMBW}

\* A concurrent caller of CommandWriter().Write (Display.sendCommand).
CallCommand(c) ==
    /\ At(c, "idle")
    /\ ~called[c]
    /\ \E op \in CmdSet, len \in 0..MaxLen :
           Goto(c, Begin(call[c], <<Send(op, Payload(c, len))>>))
    /\ called' = [called EXCEPT ![c] = TRUE]
    /\ UNCHANGED <<hwVars, mut, cs, dc, rst, busy, curOp, dispState, faults, bus>>

\* A concurrent caller of DataWriter().Write.
CallData(c) ==
    /\ At(c, "idle")
    /\ ~called[c]
    /\ \E len \in 0..MaxLen :
           Goto(c, Begin(call[c], <<Data(Payload(c, len))>>))
    /\ called' = [called EXCEPT ![c] = TRUE]
    /\ UNCHANGED <<hwVars, mut, cs, dc, rst, busy, curOp, dispState, faults, bus>>

(* --------------------------- specifications ---------------------------- *)

\* newHardware leaves dc, cs and rst low; New allocates a blank buffer.
InitHw(limits, kinds, state, rects) ==
    /\ txLimit \in limits
    /\ failing = kinds
    /\ mut = 0
    /\ cs = Low
    /\ dc = Low
    /\ rst = Low
    /\ busy \in {Low, High}
    /\ Rect \in rects
    /\ Black = NewImage(Rect).Black
    /\ Highlight = NewImage(Rect).Highlight
    /\ rectWidthBytes = NewImage(Rect).rectWidthBytes
    /\ Palette = NewImage(Rect).Palette
    /\ last = NoCall
    /\ call = [c \in Callers |-> IdleFrame]
    /\ curOp = NoArgs
    /\ dispState = state
    /\ called = [c \in Callers |-> FALSE]
    /\ faults = 0
    /\ bus = <<>>

\* New has returned a Display.
InitWith(limits, kinds, state, rects) ==
    /\ InitHw(limits, kinds, state, rects)
    /\ setup = Built

\* The display as New builds it.  Its operations log a failed command and
\* go on, so they are followed under failures of the transport.
Init == InitWith({TxLimit}, {"tx"}, "-", {DisplayBounds})

\* The hardware alone, under failures of the pins and of the transport.
InitBus == InitWith(1..MaxLimit, {"pin", "tx"}, "-", {DisplayBounds})

\* One caller drives the display through its operations.
Next ==
    \/ CallInit \/ CallReset \/ CallUpload \/ CallRefresh \/ CallClear
    \/ CallSleep
    \/ Step(1) \/ RstStep(1) \/ WaitRead(1) \/ WaitTest(1)
    \/ BusyChange

Spec == Init /\ [][Next]_vars

\* The display as New builds it, Uninitialized, on hardware that does not
\* fail; the DisplayState is followed from call to call.
InitSeq == InitWith({TxLimit}, {}, "Uninitialized", {DisplayBounds})

SpecSeq == InitSeq /\ [][Next]_vars

\* The caller's goroutine keeps running: a poll of the busy line that can be
\* made is made.
SpecLive ==
    SpecSeq /\ WF_vars(WaitRead(1)) /\ WF_vars(WaitTest(1))

\* Two concurrent callers each write one command or one payload through the
\* same hardware.
NextBus ==
    \E c \in Callers : CallCommand(c) \/ CallData(c) \/ BwEnter(c) \/ Step(c)

SpecBus == InitBus /\ [][NextBus]_vars

\* New has not been called yet; any of its steps may be one that fails.
\* The other variables hold what New gives them if it succeeds.
InitNew ==
    /\ InitHw({TxLimit}, {}, "-", {DisplayBounds})
    /\ setup \in { [failed |-> f, d |-> "-", err |-> "-"] : f \in SUBSET CanFail }

\* New is called; the operations of the display are there to call once it
\* has returned one.
NextNew ==
    \/ CallNew
    \/ (setup.d = "Display" /\ Next)

SpecNew == InitNew /\ [][NextNew]_vars

\* Every rectangle at the origin of at least one pixel and at most MaxDx by
\* MaxDy, and the panel's.
Rects ==
    { [Dx |-> w, Dy |-> h] : w \in 1..MaxDx, h \in 1..MaxDy }
        \cup {DisplayBounds}

\* An image as NewImage builds it, on hardware that does not fail.
InitImage == InitWith({TxLimit}, {}, "-", Rects)

\* One call on an image that NewImage or Encode left, and a read of the
\* pixel written; Reset and Clear are made a second time too.  The calls of
\* the display run their refresh to its end.
NextImage ==
    \/ CallEncode \/ CallSet \/ CallSetColorIndex \/ CallAt \/ CallImageReset
    \/ CallDraw \/ CallDrawAndRefresh \/ CallDrawAndRefreshImages
    \/ CallClearTwice \/ CallUploadEmpty
    \/ (Fresh /\ OfDisplay /\ CallRefresh)
    \/ Step(1) \/ WaitRead(1) \/ WaitTest(1)
    \/ BusyChange

SpecImage == InitImage /\ [][NextImage]_vars

(* ------------------------ reading the history -------------------------- *)

Done(c) == At(c, "idle") /\ call[c].seq > 0

\* The positions in the history of the transfers of call q of caller c.
TxAt(c, q, path) ==
    { k \in DOMAIN bus : /\ bus[k].kind = "tx" /\ bus[k].who = c
                         /\ bus[k].seq = q /\ bus[k].path = path }

\* The positions of set S in increasing order.
RECURSIVE Ordered(_)
Ordered(S) ==
    IF S = {} THEN <<>>
    ELSE LET m == CHOOSE x \in S : \A y \in S : x <= y
         IN  <<m>> \o Ordered(S \ {m})

RECURSIVE Concat(_)
Concat(ss) == IF ss = <<>> THEN <<>> ELSE Head(ss) \o Concat(Tail(ss))

\* The payload chunks handed to the transport for call q of caller c, in the
\* order of the transfers.
Chunks(c, q) ==
    LET ks == Ordered(TxAt(c, q, "data"))
    IN  [k \in DOMAIN ks |-> bus[ks[k]].bytes]

IsPrefix(s, t) == Len(s) <= Len(t) /\ s = SubSeq(t, 1, Len(s))

Ceil(a, b) == (a + b - 1) \div b

(* ------------------------------ claims --------------------------------- *)

\* Every pin write and transfer so far was accepted.
NoFailure == \A k \in DOMAIN bus : bus[k].ok

\* C1: no bus transfer of one caller happens between the opcode transfer
\* and the last payload-chunk transfer of another caller's command: the
\* transfers of one command are contiguous on the bus (stated for the
\* behaviours in which nothing fails, where it is refuted already).
C1_CommandNotInterleaved ==
    NoFailure =>
    \A i, j, k \in DOMAIN bus :
        ( /\ i < k /\ k < j
          /\ bus[i].kind = "tx" /\ bus[i].path = "command"
          /\ bus[j].kind = "tx" /\ bus[j].path = "data"
          /\ bus[j].who = bus[i].who /\ bus[j].seq = bus[i].seq
          /\ bus[k].kind = "tx" )
        => bus[k].who = bus[i].who

InTransfer(c) == call[c].pc \in WcLabels \cup DwLabels

\* While c is inside a transfer, a step that is not c's leaves the DC and CS
\* lines and the transport alone.
NoForeignAccess ==
    \A c \in Callers :
        (InTransfer(c) /\ call'[c] = call[c]) => UNCHANGED <<cs, dc, bus>>

\* C2: at most one caller at a time is inside a bus transfer: a caller
\* inside dataWriter.Write or writeCommand holds the mutex, no two callers
\* are inside at once, and until it has unlocked and returned no other
\* caller changes the DC or CS line or calls the transport.
C2_OneCallerInTransfer ==
    /\ [](\A c \in Callers : InTransfer(c) => mut = c)
    /\ [](\A c, d \in Callers : (InTransfer(c) /\ InTransfer(d)) => c = d)
    /\ [][NoForeignAccess]_vars

\* C2 witness: one caller is handing bytes to the transport while the
\* other one waits for the mutex.
C2_Witness ==
    /\ call[1].pc = "dw_tx"
    /\ call[2].pc \in {"wc_lock", "dw_lock"}

\* C3: with a transfer limit L >= 1 the data path hands the payload p to the
\* transport in chunks taken in payload order, each of at most L bytes and
\* all but the last of exactly L bytes; a write that returns without error
\* has made exactly ceil(len(p)/L) transport calls whose concatenation is p
\* (3 calls for 2*L+1 bytes, the first two of L bytes).
C3_ChunkedWrite ==
    \A c \in Callers :
        LET ch == Chunks(c, call[c].seq)
            pl == call[c].p
        IN  call[c].seq > 0 =>
            /\ \A k \in DOMAIN ch : Len(ch[k]) >= 1 /\ Len(ch[k]) <= txLimit
            /\ \A k \in DOMAIN ch : k < Len(ch) => Len(ch[k]) = txLimit
            /\ IsPrefix(Concat(ch), pl)
            /\ (Done(c) /\ call[c].ret.err = "nil") =>
                   /\ Len(ch) = Ceil(Len(pl), txLimit)
                   /\ Concat(ch) = pl

\* C3 witness: a write of 2*L+1 bytes has returned without error after 3
\* transport calls, the first two of L bytes.
C3_Witness ==
    \E c \in Callers :
        LET ch == Chunks(c, call[c].seq)
        IN  /\ Done(c)
            /\ call[c].ret.err = "nil"
            /\ Len(call[c].p) = 2 * txLimit + 1
            /\ Len(ch) = 3
            /\ Len(ch[1]) = txLimit
            /\ Len(ch[2]) = txLimit

\* The positions of the events of the data path for call q of caller c.
DataPathAt(c, q) ==
    { k \in DOMAIN bus : bus[k].who = c /\ bus[k].seq = q
                         /\ bus[k].path = "data" }

\* C4: when the write of a chunk fails, batchedWriter.Write transmits none
\* of the remaining chunks and returns the error with the total number of
\* payload bytes sent: those of the earlier chunks plus those reported for
\* the failing chunk.
C4_FailureReturnsBytesSent ==
    \A c \in Callers :
        LET q  == call[c].seq
            dp == DataPathAt(c, q)
        IN  (Done(c) /\ call[c].ret.err # "nil" /\ dp # {}) =>
            /\ \A f \in dp, k \in TxAt(c, q, "data") : ~bus[f].ok => k <= f
            /\ call[c].ret.n - Opcode(call[c]) = Len(Concat(Chunks(c, q)))

\* Event k is an accepted write of level l to the data/command line for
\* call q of caller c.
DcDriven(k, c, q, l) ==
    /\ bus[k].kind = "dc" /\ bus[k].ok /\ bus[k].lvl = l
    /\ bus[k].who = c /\ bus[k].seq = q

\* Event k is the transfer of the opcode byte of call q of caller c.
OpcodeSent(k, c, q) ==
    /\ bus[k].kind = "tx" /\ bus[k].path = "command"
    /\ bus[k].who = c /\ bus[k].seq = q

\* C5 as stated: for every command commandWriter.Write completes, with or
\* without payload, the data/command line is driven low before the opcode
\* byte is transmitted and driven high after it has been transmitted
\* (stated for the behaviours in which nothing fails).
C5_DcHighAfterEveryOpcode ==
    \A c \in Callers :
        (Done(c) /\ call[c].cmd # NoCmd /\ NoFailure) =>
            \E j \in DOMAIN bus :
                /\ OpcodeSent(j, c, call[c].seq)
                /\ \E i \in 1..(j - 1) : DcDriven(i, c, call[c].seq, Low)
                /\ \E k \in (j + 1)..Len(bus) :
                       DcDriven(k, c, call[c].seq, High)

\* C5 amended: the data/command line is driven low before the opcode byte
\* is transmitted and is low during that transfer; every payload byte that
\* is transmitted goes through the data path, after the line has been
\* driven high following the opcode transfer, and a command that completes
\* without error has transmitted its whole payload that way; a command
\* without payload does not drive the line high.
C5_DcAroundOpcode ==
    /\ \A j \in DOMAIN bus :
         (bus[j].kind = "tx" /\ bus[j].path = "command") =>
            /\ bus[j].bytes = <<bus[j].op>>
            /\ bus[j].dc = Low
            /\ \E i \in 1..(j - 1) : /\ DcDriven(i, bus[j].who, bus[j].seq, Low)
                                     /\ bus[i].path = "command"
    /\ \A j \in DOMAIN bus :
         (bus[j].kind = "tx" /\ bus[j].path = "data" /\ bus[j].op # NoCmd) =>
            /\ bus[j].dc = High
            /\ \E h \in 1..(j - 1) :
                  /\ DcDriven(h, bus[j].who, bus[j].seq, High)
                  /\ bus[h].path = "data"
                  /\ \E o \in 1..(h - 1) :
                         OpcodeSent(o, bus[j].who, bus[j].seq)
    /\ \A c \in Callers :
         (Done(c) /\ call[c].cmd # NoCmd) =>
            /\ call[c].ret.err = "nil" => Concat(Chunks(c, call[c].seq)) = call[c].p
            /\ Len(call[c].p) = 0 =>
                  \A k \in DOMAIN bus : ~DcDriven(k, c, call[c].seq, High)

\* C5 witness: one caller has completed a command with payload and the
\* other a command without payload, both without error.
C5_Witness ==
    /\ Done(1) /\ call[1].cmd # NoCmd /\ call[1].ret.err = "nil"
    /\ Len(call[1].p) > 0
    /\ Done(2) /\ call[2].cmd # NoCmd /\ call[2].ret.err = "nil"
    /\ Len(call[2].p) = 0

(* ---------------------- the display's command order -------------------- *)

CmdMark(op) == [m |-> "cmd", op |-> op, lvl |-> "-"]

IdleMark == [m |-> "idle", op |-> NoCmd, lvl |-> "-"]

RstMark(l) == [m |-> "rst", op |-> NoCmd, lvl |-> l]

\* The events that mark the progress of an operation: a write to the reset
\* line, the first pin write of a command, a completed busy-wait.
IsMark(e) ==
    \/ e.kind = "rst"
    \/ e.kind = "idle"
    \/ e.kind = "dc" /\ e.path = "command"

IsTransfer(e) == e.kind = "tx"

MarkOf(e) ==
    CASE e.kind = "rst"  -> RstMark(e.lvl)
      [] e.kind = "idle" -> IdleMark
      [] OTHER           -> CmdMark(e.op)

Marks ==
    LET sel == SelectSeq(bus, IsMark)
    IN  [k \in DOMAIN sel |-> MarkOf(sel[k])]

\* The last n marks.
LastMarks(n) ==
    IF Len(Marks) < n THEN <<>> ELSE SubSeq(Marks, Len(Marks) - n + 1, Len(Marks))

\* The bytes of the last n transfers.
LastTransfers(n) ==
    LET tx == SelectSeq(bus, IsTransfer)
    IN  IF Len(tx) < n THEN <<>>
        ELSE [k \in 1..n |-> tx[Len(tx) - n + k].bytes]

AllOk == NoFailure

\* No pin write and no transfer of command q of the operation failed.
NoFault(q) == \A k \in DOMAIN bus : bus[k].seq = q => bus[k].ok

\* Command q of the operation has returned.
Returned(q) == call[1].seq > q \/ (call[1].seq = q /\ call[1].pc \notin
                   WcLabels \cup DwLabels \cup {"wc_lock", "dw_lock"})

\* The payload bytes handed to the transport under opcode op before event j.
DataBefore(j, op) ==
    LET ks == Ordered({k \in 1..(j - 1) : /\ bus[k].kind = "tx"
                                          /\ bus[k].path = "data"
                                          /\ bus[k].op = op})
    IN  Concat([k \in DOMAIN ks |-> bus[ks[k]].bytes])

Uploading == curOp.name \in {"Upload", "Refresh", "Clear"}

\* The opcodes of Init: 0x12, 0x46, 0x47, 0x0C, 0x01, 0x11, 0x44, 0x45,
\* 0x3C, 0x18, 0x22, 0x20, 0x4E, 0x4F.
C6_Opcodes == <<18, 70, 71, 12, 1, 17, 68, 69, 60, 24, 34, 32, 78, 79>>

C6_Marks ==
    << RstMark(High), RstMark(Low), RstMark(High),
       CmdMark(18), IdleMark, CmdMark(70), IdleMark, CmdMark(71), IdleMark,
       CmdMark(12), CmdMark(1), CmdMark(17), CmdMark(68), CmdMark(69),
       CmdMark(60), CmdMark(24), CmdMark(34), CmdMark(32), IdleMark,
       CmdMark(78), CmdMark(79) >>

\* The opcode bytes handed to the transport so far, in order.
OpcodesSent ==
    LET IsOpcode(e) == e.kind = "tx" /\ e.path = "command"
        sel == SelectSeq(bus, IsOpcode)
    IN  Concat([k \in DOMAIN sel |-> sel[k].bytes])

\* C6: Init sends no command before the reset pulse (high, low, high) is
\* over, then hands the opcodes 0x12 0x46 0x47 0x0C 0x01 0x11 0x44 0x45
\* 0x3C 0x18 0x22 0x20 0x4E 0x4F to the transport, these and no others, in
\* this order, with a completed busy-wait after 0x12, 0x46, 0x47 and 0x20
\* before the next command; the last two commands carry the address
\* counters 00 00 and AF 02.
C6_InitSequence ==
    curOp.name = "Init" =>
        /\ IsPrefix(Marks, C6_Marks)
        /\ IsPrefix(OpcodesSent, C6_Opcodes)
        /\ Done(1) =>
              /\ Marks = C6_Marks
              /\ OpcodesSent = C6_Opcodes
              /\ NoFault(13) => Concat(Chunks(1, 13)) = <<0, 0>>
              /\ NoFault(14) => Concat(Chunks(1, 14)) = <<175, 2>>

\* C6 witness: Init has returned after fourteen opcode transfers, none of
\* which failed.
C6_Witness ==
    /\ curOp.name = "Init" /\ Done(1) /\ AllOk
    /\ Len(OpcodesSent) = 14

C7_Marks ==
    <<CmdMark(79), CmdMark(36), CmdMark(38), CmdMark(34), CmdMark(32), IdleMark>>

\* C7: Upload sends the set-RAM-Y-address-counter command (0x4F), the
\* black plane under 0x24, the highlight plane under 0x26 and then the
\* refresh trigger (0x22, 0x20), in this order: no byte of the black plane
\* follows a byte of the highlight plane, no byte of either plane follows
\* the refresh trigger, and when nothing fails both planes have been sent
\* whole (BufSize bytes each) before the trigger.
C7_UploadOrder ==
    Uploading =>
        /\ IsPrefix(Marks, C7_Marks)
        /\ Done(1) => Marks = C7_Marks
        /\ \A i, j \in DOMAIN bus :
              (i < j /\ bus[i].kind = "tx" /\ bus[j].kind = "tx") =>
                  /\ bus[i].op = 38 => bus[j].op \in {38, 34, 32}
                  /\ bus[i].op \in {34, 32} => bus[j].op \in {34, 32}
                  /\ bus[i].op = 36 => bus[j].op # 79
        /\ \A j \in DOMAIN bus :
              (OpcodeSent(j, 1, 4) /\ \A k \in 1..j : bus[k].ok) =>
                  /\ bus[j].bytes = <<34>>
                  /\ Len(DataBefore(j, 36)) = BufSize
                  /\ Len(DataBefore(j, 38)) = BufSize

\* C7 witness: an Upload has returned without a failure.
C7_Witness == curOp.name = "Upload" /\ Done(1) /\ AllOk

\* The plane Upload is to send for buffer img: img, padded to BufSize.
Padded(img, pad) == [k \in 1..BufSize |-> IF k <= Len(img) THEN img[k] ELSE pad]

\* C8: for buffers no longer than BufSize the payload Upload sends under
\* 0x24 is the black bytes followed only by 0xFF up to BufSize bytes, and
\* the payload under 0x26 is the highlight bytes followed only by 0x00 up
\* to BufSize bytes; a failure cuts a payload short but does not alter it.
C8_UploadPadding ==
    Uploading =>
        LET sentBlack == DataBefore(Len(bus) + 1, 36)
            sentRed   == DataBefore(Len(bus) + 1, 38)
        IN  /\ IsPrefix(sentBlack, Padded(curOp.blackImg, 255))
            /\ IsPrefix(sentRed, Padded(curOp.redImg, 0))
            /\ (Returned(2) /\ NoFault(2)) =>
                  sentBlack = Padded(curOp.blackImg, 255)
            /\ (Returned(3) /\ NoFault(3)) =>
                  sentRed = Padded(curOp.redImg, 0)

\* C8 witness: an Upload of two short, non-empty buffers has returned
\* without a failure.
C8_Witness ==
    /\ curOp.name = "Upload" /\ Done(1) /\ AllOk
    /\ Len(curOp.blackImg) \in 1..(BufSize - 1)
    /\ Len(curOp.redImg) \in 1..(BufSize - 1)

Polling(c) == call[c].pc \in {"wait_read", "wait_test"}

WaitLoops ==
    \A c \in Callers :
        (At(c, "wait_test") /\ call'[c] # call[c]) =>
            IF call[c].lastRead = Low
            THEN call'[c].pc = "wait_read" /\ bus' = bus
            ELSE /\ call[c].lastRead = High
                 /\ call'[c].pc # "wait_read"
                 /\ bus' = Append(bus, Ev(c, "idle", High, <<>>, TRUE))

C12_FollowsDisplayState ==
    /\ \A k \in DOMAIN bus :
          (Uploading /\ bus[k].kind = "tx" /\ bus[k].op \in {36, 38, 34, 32})
              => dispState = "Idle"
    /\ \A k \in DOMAIN bus :
          (dispState = "Asleep" /\ curOp.name \notin {"Init", "Reset"})
              => bus[k].kind # "tx"

\* The opcodes of an operation when nothing fails.
OpcodesOf(name) ==
    CASE name = "Init"  -> C6_Opcodes
      [] name = "Sleep" -> <<16>>
      [] name \in {"Upload", "Refresh", "Clear"} -> <<79, 36, 38, 34, 32>>
      [] OTHER -> <<>>

\* A transfer of the operation in progress has failed.
SomeTransferFailed == \E k \in DOMAIN bus : bus[k].kind = "tx" /\ ~bus[k].ok

\* C13: a transport failure during a command of Init, Upload or Sleep does
\* not stop the sequence: the opcodes handed to the transport are those of
\* the failure-free run, in the same order, and all of them once the
\* operation has returned; after a failed transfer in the black plane the
\* highlight plane is still sent whole and the refresh trigger follows.
C13_FailureDoesNotStop ==
    /\ IsPrefix(OpcodesSent, OpcodesOf(curOp.name))
    /\ Done(1) => OpcodesSent = OpcodesOf(curOp.name)
    /\ (Done(1) /\ Uploading /\ NoFault(3) /\ NoFault(4) /\ NoFault(5)) =>
          /\ DataBefore(Len(bus) + 1, 38) = Padded(curOp.redImg, 0)
          /\ LastTransfers(3) = << <<34>>, <<199>>, <<32>> >>

\* C13 witness: an Upload has returned after a transfer of the black plane
\* failed, and the highlight plane and the refresh trigger were sent after
\* the failure.
C13_Witness ==
    /\ curOp.name = "Upload" /\ Done(1)
    /\ \E k \in DOMAIN bus : /\ bus[k].kind = "tx" /\ bus[k].op = 36
                             /\ bus[k].path = "data" /\ ~bus[k].ok
    /\ DataBefore(Len(bus) + 1, 38) = Padded(curOp.redImg, 0)
    /\ LastTransfers(3) = << <<34>>, <<199>>, <<32>> >>

(* ------------------------------ the image ------------------------------ *)

\* A Set of one of the three colours of the package at a pixel of the image
\* has returned and At has read that pixel.
SetThenAt ==
    /\ last.op = "Set"
    /\ In(last.x, last.y, Rect)
    /\ last.c \in {White, BlackColor, HighlightColor}
    /\ last.at # NoColor

\* C14: on an image of any bounds, for every pixel (x, y) of it and every
\* colour c of White, Black and Highlight, At(x, y) after Set(x, y, c)
\* returns c.
C14_SetAtRoundTrip == SetThenAt => last.at = last.c

\* A Set or a SetColorIndex was given a point outside the image.
WroteOutside ==
    /\ last.op \in {"Set", "SetColorIndex"}
    /\ ~In(last.x, last.y, Rect)

\* C15: Set(x, y, c) and SetColorIndex(x, y, k) at a point outside the
\* bounds of the image (x < 0, x >= width, y < 0 or y >= height) return
\* without failing and change no byte of either plane.
C15_OutsideIsNoOp ==
    WroteOutside => (last.ok /\ Black = last.black /\ Highlight = last.highlight)

\* A Set at a pixel of the image has returned.
SetInside == last.op = "Set" /\ In(last.x, last.y, Rect)

\* The role a colour handed to Set stands for: its own when it is a Color
\* of the package; color.Black is black and color.White is white.
RoleOf(c) ==
    CASE c.native              -> c.C
      [] c = Foreign(0, 0, 0)  -> 1
      [] OTHER                 -> 0

\* ceil(width / 8)
BytesPerRow == (Rect.Dx + 7) \div 8

\* The bit of pixel (x, y) in a plane: bit 0x80 >> (x mod 8) of the byte at
\* index (x / 8) + y * bytesPerRow.
BitAt(plane, x, y) ==
    IF HasBit(plane[(x \div 8) + y * BytesPerRow + 1], 2 ^ (7 - (x % 8)))
    THEN 1 ELSE 0

\* The black bit and the highlight bit of each role.
BitsOf(role) ==
    CASE role = 0 -> <<1, 0>>
      [] role = 1 -> <<0, 0>>
      [] role = 2 -> <<1, 1>>

\* C16: Set(x, y, c) at a pixel of the image writes, in both planes, the bit
\* 0x80 >> (x mod 8) of the byte (x / 8) + y * bytesPerRow, with
\* bytesPerRow = ceil(width / 8): White gives black bit 1 and highlight
\* bit 0, Black gives 0 and 0, Highlight gives 1 and 1.
C16_SetWritesBit ==
    (SetInside /\ last.c # Blue) =>
        /\ last.ok
        /\ <<BitAt(Black, last.x, last.y), BitAt(Highlight, last.x, last.y)>>
               = BitsOf(RoleOf(last.c))

\* As in the test: on a 16 x 2 image, Highlight set at x = 15 of row 1 on
\* content that was not blank.
C16_Witness ==
    /\ SetInside
    /\ Rect = [Dx |-> 16, Dy |-> 2]
    /\ last.c = HighlightColor /\ last.x = 15 /\ last.y = 1
    /\ last.black # NewImage(Rect).Black
    /\ Black[4] % 2 = 1 /\ Highlight[4] % 2 = 1
    /\ last.highlight[4] % 2 = 0

\* The byte b without the bit of pixel x of its row.
Others(b, x) == ClearBit(b, 2 ^ (7 - (x % 8)))

\* The plane `now` differs from the plane `before` at most in the bit of
\* pixel (x, y).
SameBut(now, before, x, y) ==
    /\ Len(now) = Len(before)
    /\ \A k \in DOMAIN now :
           IF k = (x \div 8) + y * BytesPerRow + 1
           THEN Others(now[k], x) = Others(before[k], x)
           ELSE now[k] = before[k]

\* C17: Set(x, y, c) at a pixel of the image changes no bit of either plane
\* other than the bit of (x, y): every other pixel keeps its colour.
C17_SetChangesNoOtherBit ==
    SetInside =>
        /\ SameBut(Black, last.black, last.x, last.y)
        /\ SameBut(Highlight, last.highlight, last.x, last.y)

\* A Set that changed both planes of an image of more than one byte, in a
\* byte that holds pixels of other colours.
C17_Witness ==
    /\ SetInside
    /\ Len(Black) > 1
    /\ Black # last.black /\ Highlight # last.highlight
    /\ LET k == (last.x \div 8) + last.y * BytesPerRow + 1
       IN  Others(last.black[k], last.x) \notin {0, Others(255, last.x)}

\* The pixels of the image.
Pixels == (0..(Rect.Dx - 1)) \X (0..(Rect.Dy - 1))

\* C18: whatever the writers of the driver (Set, SetColorIndex, Reset, Draw,
\* DrawAndRefresh, Clear, DrawAndRefreshImages) have done, no pixel has
\* black bit 0 with highlight bit 1: every pixel is (1, 0) White,
\* (0, 0) Black or (1, 1) Highlight.
C18_NoUndefinedPixel ==
    last.ok =>
        \A q \in Pixels :
            <<BitAt(Black, q[1], q[2]), BitAt(Highlight, q[1], q[2])>> # <<0, 1>>

\* C19: whatever NewImage, Set, SetColorIndex, Reset, Draw, Clear, Refresh
\* and DrawAndRefreshImages have done, the black plane and the highlight
\* plane have the same length, ceil(width / 8) * height for the bounds the
\* image was made with, which is BufSize for the buffer of the display.
C19_PlaneLengths ==
    /\ Len(Black) = Len(Highlight)
    /\ Len(Black) = BytesPerRow * Rect.Dy
    /\ OfDisplay => Len(Black) = BufSize

\* Reset has blanked an image that is not of the size of the panel and was
\* not blank.
C19_Witness ==
    /\ last.op = "Reset"
    /\ Len(Black) # BufSize
    /\ Black # last.black /\ Highlight # last.highlight

\* C20: after Draw(img), from any prior content of the buffer and on both
\* paths (a palette of three entries, and the general one), every pixel of
\* the display outside the bounds of img is White.
C20_OutsideIsWhite ==
    (last.op = "Draw" /\ last.ok) =>
        \A q \in Pixels :
            ~In(q[1], q[2], last.src.Rect) =>
                <<BitAt(Black, q[1], q[2]), BitAt(Highlight, q[1], q[2])>>
                    = <<1, 0>>

(* ------------------------------ drawing -------------------------------- *)

\* Draw has drawn a paletted image of three entries.
DrewExact == last.op = "Draw" /\ last.ok /\ IsExact(last.src)

\* Entry i of the palette is, of the entries S, one nearest to colour c.
NearestOf(pal, c, i, S) ==
    /\ i \in S
    /\ \A j \in S :
           ~Less(ColorDistance(c, pal[j + 1]), ColorDistance(c, pal[i + 1]))

\* C21: for a paletted source of three entries the roles are bound in the
\* order White, Black, Highlight, each to the nearest entry still left:
\* White to the entry nearest to pure white, Black to the entry nearest to
\* pure black of the two others, Highlight to the one entry left, whatever
\* its colour.
C21_RolesBoundInOrder ==
    DrewExact =>
        LET roles == exactColorIndex(last.src)
            pal   == last.src.Palette
        IN  /\ NearestOf(pal, Foreign(255, 255, 255), roles.white, {0, 1, 2})
            /\ NearestOf(pal, Foreign(0, 0, 0), roles.black,
                         {0, 1, 2} \ {roles.white})
            /\ roles.highlight \in {0, 1, 2} \ {roles.white, roles.black}

\* The role drawExactColors gives a pixel of palette index idx: the first
\* case of its switch that matches, or none.
RoleGiven(roles, idx) ==
    CASE idx = roles.white     -> 0
      [] idx = roles.black     -> 1
      [] idx = roles.highlight -> 2
      [] OTHER                 -> -1

\* C22: drawing a source with a palette of three entries, repeated colours
\* included, gives every pixel of it exactly one of White, Black and
\* Highlight: the three indices exactColorIndex returns are pairwise
\* different, so every palette index has a role and none has two.
C22_EveryIndexHasOneRole ==
    DrewExact =>
        LET roles == exactColorIndex(last.src)
        IN  /\ Cardinality({roles.white, roles.black, roles.highlight}) = 3
            /\ \A q \in Pixels :
                   LET r == RoleGiven(roles, ColorIndexAt(last.src, q[1], q[2]))
                   IN  /\ r \in {0, 1, 2}
                       /\ <<BitAt(Black, q[1], q[2]),
                            BitAt(Highlight, q[1], q[2])>> = BitsOf(r)

\* Draw has drawn an image that is not a paletted image of three entries.
DrewGeneral == last.op = "Draw" /\ ~IsExact(last.src)

\* The reference colours of the roles: white, black, red.
Reference == <<Foreign(255, 255, 255), Foreign(0, 0, 0), Foreign(255, 0, 0)>>

\* The role whose reference colour is nearest to colour c; of two equally
\* near, the first.
NearestRole(c) ==
    CHOOSE r \in 0..2 :
        \A s \in 0..2 :
            LET dr == ColorDistance(c, Reference[r + 1])
                ds == ColorDistance(c, Reference[s + 1])
            IN  IF s < r THEN Less(dr, ds) ELSE ~Less(ds, dr)

SentCommand(q) ==
    LET cmd  == Ordered(TxAt(1, q, "command"))
        data == Ordered(TxAt(1, q, "data"))
    IN  << Concat([k \in DOMAIN cmd |-> bus[cmd[k]].bytes]),
           Concat([k \in DOMAIN data |-> bus[data[k]].bytes]) >>

SentCommands == [q \in 1..call[1].seq |-> SentCommand(q)]

\* The Y address counter at 0x02AF, BufSize bytes 0xFF under 0x24, BufSize
\* bytes 0x00 under 0x26, and the refresh trigger 0x22 0xC7, 0x20.
BlankUpload ==
    << << <<79>>, <<175, 2>> >>,
       << <<36>>, Repeat(255, BufSize) >>,
       << <<38>>, Repeat(0, BufSize) >>,
       << <<34>>, <<199>> >>,
       << <<32>>, <<>> >> >>

UploadedEmpty ==
    curOp.name = "Upload" /\ curOp.blackImg = <<>> /\ curOp.redImg = <<>>

\* C24: from any content of the buffer, Clear transmits what Upload with two
\* empty buffers transmits: the Y-address-counter command, a 0x24 payload
\* of BufSize bytes 0xFF, a 0x26 payload of BufSize bytes 0x00, then one
\* refresh trigger.
C24_ClearIsEmptyUpload ==
    (Done(1) /\ (curOp.name = "Clear" \/ UploadedEmpty)) =>
        SentCommands = BlankUpload

\* Clear has returned on a buffer that held black and highlight pixels.
C24_Witness ==
    /\ Done(1) /\ curOp.name = "Clear"
    /\ last.op = "Clear" /\ last.times = 1
    /\ last.black # Repeat(255, BufSize)
    /\ last.highlight # Repeat(0, BufSize)
    /\ SentCommands = BlankUpload

\* Reset or Clear was the last call on the image.
Blanked == last.op \in {"Reset", "Clear"}

\* C25: Clear and Image.Reset are idempotent: from any content, after the
\* call the black plane is all 0xFF and the highlight plane all 0x00 at
\* unchanged lengths, and after a second call both planes are byte for
\* byte what they were after the first.
C25_ClearIdempotent ==
    Blanked =>
        /\ Black = Repeat(255, Len(last.black))
        /\ Highlight = Repeat(0, Len(last.highlight))
        /\ last.times = 2 => (Black = last.black /\ Highlight = last.highlight)

\* Clear has returned a second time.
C25_Witness ==
    /\ last.op = "Clear" /\ last.times = 2
    /\ Done(1) /\ curOp.name = "Clear"
    /\ Black = last.black
    /\ Len(Black) = BufSize

\* A refresh has returned and the buffer is as it was when it began.
Refreshed ==
    /\ Done(1)
    /\ \/ curOp.name = "Refresh" /\ Fresh
       \/ curOp.name = last.op
            /\ last.op \in {"DrawAndRefresh", "DrawAndRefreshImages", "Clear"}

\* The buffer is white but for a highlight pixel at the last pixel of the
\* last row.
LastPixelHighlight ==
    /\ last.op = "Encode" /\ last.src.paint = 4
    /\ OfDisplay

\* C26: Refresh transmits the buffer as it is: the payload under 0x24 is the
\* black plane and the payload under 0x26 the highlight plane, byte for
\* byte; a buffer whose only pixel that is not white is a Highlight at the
\* last pixel is sent as a highlight payload of zeros with a last byte
\* 0x01 and a black payload in which the bit of that pixel is 1.
C26_RefreshSendsBuffer ==
    Refreshed =>
        /\ SentCommand(2) = << <<36>>, Black >>
        /\ SentCommand(3) = << <<38>>, Highlight >>
        /\ LastPixelHighlight =>
              /\ SentCommand(3)[2] = Repeat(0, BufSize - 1) \o <<1>>
              /\ SentCommand(2)[2][BufSize] % 2 = 1

\* Refresh has returned on the buffer with Highlight at the last pixel.
C26_Witness ==
    /\ Refreshed /\ curOp.name = "Refresh"
    /\ LastPixelHighlight
    /\ SentCommand(3)[2] = Repeat(0, BufSize - 1) \o <<1>>

(* ------------------------------- setup --------------------------------- *)

\* A step that New reaches fails: the host, a pin name, the configuration of
\* a pin, the opening of the bus or the connection to it.
SetupFails == \E k \in DOMAIN SetupSteps : SetupSteps[k] \in setup.failed

\* C27: if a pin name is invalid, the configuration of a pin fails, or the
\* bus cannot be opened or connected, New returns an error and a nil
\* Display; it returns a Display only when every step of the setup
\* succeeded, and without one no operation is made.
C27_NewFailsWithoutDisplay ==
    /\ setup.d # "-" =>
          /\ SetupFails => (setup.d = "nil" /\ setup.err # "nil")
          /\ setup.d = "Display" => (~SetupFails /\ setup.err = "nil")
    /\ setup.d # "Display" => curOp.name = "none"

\* New has returned with the name of the busy pin invalid.
C27_Witness ==
    /\ setup.failed = {"busy.ByName"}
    /\ setup.d = "nil"
    /\ setup.err = "busy.ByName"

(* --------------------------- reset and sleep --------------------------- *)

RstPulse == <<High, Low, High>>

\* The levels of the first n events of the operation.
FirstLevels(n) == [k \in 1..n |-> bus[k].lvl]

\* C28: Reset drives the reset line high, then low, then high, in this
\* order and with no bus transfer in between, and the line is high when
\* Reset returns (Init begins with the same pulse).
C28_ResetPulse ==
    /\ curOp.name = "Reset" =>
          /\ \A k \in DOMAIN bus : bus[k].kind = "rst"
          /\ IsPrefix(FirstLevels(Len(bus)), RstPulse)
          /\ Len(bus) > 0 => rst = bus[Len(bus)].lvl
          /\ At(1, "idle") => (FirstLevels(Len(bus)) = RstPulse /\ rst = High)
    /\ (curOp.name = "Init" /\ Len(bus) >= 3) =>
          /\ \A k \in 1..3 : bus[k].kind = "rst"
          /\ FirstLevels(3) = RstPulse

\* Reset has returned.
C28_Witness ==
    /\ curOp.name = "Reset" /\ At(1, "idle")
    /\ Len(bus) = 3 /\ rst = High

\* Sleep is the operation under way or the last one made.
Sleeping == curOp.name = "Sleep"

\* C29: Sleep transmits exactly one command, opcode 0x10 with the one
\* payload byte 0x01, makes no busy-wait and changes neither the reset line
\* nor the buffer.
C29_SleepIsOneCommand ==
    /\ [](Sleeping =>
            /\ ~Polling(1)
            /\ \A k \in DOMAIN bus : bus[k].kind \notin {"rst", "idle"}
            /\ call[1].seq <= 1
            /\ Done(1) => SentCommands = << << <<16>>, <<1>> >> >>)
    /\ [][Sleeping' =>
            (rst' = rst /\ Black' = Black /\ Highlight' = Highlight)]_vars

\* Sleep has returned after an Init.
C29_Witness ==
    /\ Sleeping /\ Done(1)
    /\ dispState = "Idle"
    /\ SentCommands = << << <<16>>, <<1>> >> >>

\* The bit a plane handed to Upload has for a pixel of role r if, in the
\* black plane, 1 is a black pixel and 0 a white one and, in the red
\* plane, 1 is a red pixel.
DocBits(r) ==
    CASE r = 0 -> <<0, 0>>
      [] r = 1 -> <<1, 0>>
      [] r = 2 -> <<0, 1>>

\* C30: in the black buffer handed to Upload a 1 bit is a black pixel and a
\* 0 bit a white one, and in the red buffer a 1 bit is a red pixel; the
\* planes the driver builds and hands to Upload (from Draw, from Clear and
\* from the padding of short buffers with white) have this polarity.
C30_UploadPolarity ==
    /\ (Done(1) /\ (curOp.name = "Clear" \/ UploadedEmpty)) =>
          \A q \in Pixels :
              << BitAt(SentCommand(2)[2], q[1], q[2]),
                 BitAt(SentCommand(3)[2], q[1], q[2]) >> = DocBits(0)
    /\ (Refreshed /\ last.op = "DrawAndRefresh" /\ ~IsExact(last.src)) =>
          \A q \in Pixels :
              << BitAt(SentCommand(2)[2], q[1], q[2]),
                 BitAt(SentCommand(3)[2], q[1], q[2]) >>
                  = DocBits(NearestRole(SrcAt(last.src, q[1], q[2])))

(* ------------------- chip-select on every exit path -------------------- *)

\* The chip-select writes of caller c so far: positions in the history.
CsWrites(c) ==
    {k \in DOMAIN bus : bus[k].who = c /\ bus[k].kind = "cs"}

\* Caller c is about to release the mutex and return from writeCommand or
\* dataWriter.Write.
AtUnlock(c) == call[c].pc \in {"wc_unlock", "dw_unlock"}

\* C31: on every exit path of dataWriter.Write and writeCommand on which
\* chip-select was driven low, failures of a pin write or of the transport
\* included, cs.Out(High) has been called after it by the time the caller
\* releases the lock and returns.
C31_ChipSelectRestored ==
    \A c \in Callers :
        AtUnlock(c) =>
            \A k \in CsWrites(c) :
                (bus[k].lvl = Low /\ bus[k].ok) =>
                    \E j \in CsWrites(c) : j > k /\ bus[j].lvl = High

(* -------------------- line levels at every transfer -------------------- *)

\* C32: whenever bytes are handed to the transport, chip-select is low, and
\* the data/command line is low if the byte is an opcode (a transfer of
\* writeCommand, which carries exactly the opcode) and high if the bytes
\* are payload (a transfer of dataWriter.Write); this holds with two
\* concurrent callers of commandWriter.Write and of the data writer, under
\* failures of pin writes and transfers.
C32_LinesAtTransfer ==
    \A k \in DOMAIN bus :
        bus[k].kind = "tx" =>
            /\ bus[k].cs = Low
            /\ bus[k].path = "command" =>
                   (bus[k].dc = Low /\ Len(bus[k].bytes) = 1)
            /\ bus[k].path = "data" =>
                   (bus[k].dc = High /\ Len(bus[k].bytes) >= 1)
            /\ bus[k].path \in {"command", "data"}

\* C32 witness: a command of one caller and a payload of the other have
\* both been transferred, the payload transfer lying between the opcode
\* transfer and a payload transfer of the command.
C32_Witness ==
    \E i, j, k \in DOMAIN bus :
        /\ i < j /\ j < k
        /\ bus[i].kind = "tx" /\ bus[i].path = "command"
        /\ bus[j].kind = "tx" /\ bus[j].path = "data" /\ bus[j].who # bus[i].who
        /\ bus[k].kind = "tx" /\ bus[k].path = "data" /\ bus[k].who = bus[i].who

(* ------------------------ returned byte counts ------------------------- *)

\* C33: when every transfer succeeds, batchedWriter.Write returns len(p)
\* with a nil error and commandWriter.Write returns 1 + len(payload) with a
\* nil error, for every payload length and every transfer limit >= 1.
C33_ReturnsLength ==
    \A c \in Callers :
        (Done(c) /\ NoFailure) =>
            /\ call[c].ret.err = "nil"
            /\ call[c].ret.n = Opcode(call[c]) + Len(call[c].p)

(* ------------------- the data path under any limit --------------------- *)

\* The transfer limits of a hardware value: txLimit is an int field, and
\* the zero value and negative values are among its values.
Limits == (0 - MaxLimit)..MaxLimit

InitLimit == InitWith(Limits, {"pin", "tx"}, "-", {DisplayBounds})

\* One caller writes one command or one payload through a hardware of any
\* transfer limit.
NextLimit == CallCommand(1) \/ CallData(1) \/ BwEnter(1) \/ Step(1)

\* The caller's goroutine keeps running, and no one else holds the mutex.
SpecLimit ==
    InitLimit /\ [][NextLimit]_vars /\ WF_vars(BwEnter(1) \/ Step(1))

\* The transfers of the data path made so far by caller c.
DataTransfers(c) ==
    {k \in DOMAIN bus : bus[k].who = c /\ bus[k].kind = "tx"
                                       /\ bus[k].path = "data"}

\* The call of caller c has come to an end: it returned, or a panic ended
\* it.
Ended(c) == Done(c) \/ call[c].pc = "panic"

\* C34: the data path terminates for every payload and every transfer
\* limit: a call that was made comes to an end; and with a limit <= 0 and
\* a non-empty payload it returns io.ErrShortWrite without having called
\* the transport for the payload.
C34_DataPathTerminates ==
    /\ called[1] ~> Ended(1)
    /\ [](( /\ Done(1) /\ txLimit <= 0 /\ Len(call[1].p) > 0
            /\ (call[1].cmd # NoCmd => NoFailure) ) =>
              (call[1].ret.err = "short" /\ DataTransfers(1) = {}))

(* ----------------------- a failed opcode transfer ---------------------- *)

\* The steps of writeCommand for command q of caller c that failed: the
\* transfer of the opcode byte, or a pin write around it.
FailedInCommand(c, q) ==
    {k \in DOMAIN bus : /\ bus[k].who = c /\ bus[k].seq = q
                        /\ bus[k].path = "command" /\ ~bus[k].ok}

\* C35: if transmitting the opcode byte of a command fails (the transfer
\* itself, or a pin write of writeCommand), commandWriter.Write transmits
\* none of that command's payload bytes, never enters the data path, and
\* returns that error with a byte count of 1.
C35_OpcodeFailureSendsNoPayload ==
    \A c \in Callers :
        FailedInCommand(c, call[c].seq) # {} =>
            /\ TxAt(c, call[c].seq, "data") = {}
            /\ call[c].pc \notin DwLabels \cup {"dw_lock", "bw_loop"}
            /\ Done(c) =>
                  /\ call[c].ret.n = 1
                  /\ \E k \in FailedInCommand(c, call[c].seq) :
                         call[c].ret.err = bus[k].kind
                             \/ (bus[k].kind \in {"cs", "dc"}
                                    /\ call[c].ret.err = "pin")

\* C35 witness: a command with payload has returned after the transfer of
\* its opcode byte failed, while the other caller's payload went through.
C35_Witness ==
    /\ Done(1) /\ Len(call[1].p) > 0
    /\ \E k \in FailedInCommand(1, call[1].seq) : bus[k].kind = "tx"
    /\ Done(2) /\ TxAt(2, call[2].seq, "data") # {}

(* -------------------- the memory Upload does not own ------------------- *)

\* Upload and Refresh on buffers with any capacity to spare, under failures
\* of the transport.
NextUpload ==
    \/ CallUploadSlices \/ CallRefreshPlanes
    \/ AppendStep(1) \/ Step(1) \/ WaitRead(1) \/ WaitTest(1)
    \/ BusyChange

SpecUpload == Init /\ [][NextUpload]_vars

\* A step of an Upload or a Refresh in progress leaves the planes of the
\* framebuffer and the caller's arrays as they are.
KeepsMemory ==
    call[1].pc # "idle" =>
        /\ Black' = Black /\ Highlight' = Highlight
        /\ curOp'.blackArr = curOp.blackArr
        /\ curOp'.redArr = curOp.redArr

\* C36: Upload and Refresh leave memory they do not own unchanged: no step
\* of the call changes a byte of the framebuffer planes or of the caller's
\* buffers, the bytes of the underlying array beyond the length of a short
\* buffer included, also when a transfer fails.
C36_UploadKeepsMemory == [][KeepsMemory]_vars

(* ------------------- buffers longer than BufSize ----------------------- *)

\* The positions of the history at which something of command op happens:
\* its opcode or payload is handed to the transport, or a pin is written
\* for it.
Touching(op) == {k \in DOMAIN bus : bus[k].op = op}

\* The payload bytes handed to the transport under opcode op so far,
\* whether the transfer was accepted or not.
PayloadUnder(op) == DataBefore(Len(bus) + 1, op)

\* C37: Upload never transmits more than BufSize payload bytes under a
\* RAM-write opcode: when a supplied buffer is longer than BufSize the call
\* panics before the command of that plane is begun, so that nothing of
\* that plane and of what would follow it is transmitted, the refresh
\* trigger (0x22, 0x20) included, and the call never returns.
C37_LongBufferAborts ==
    curOp.name = "Upload" =>
        /\ Len(PayloadUnder(writeRAMBW)) <= BufSize
        /\ Len(PayloadUnder(writeRAMRed)) <= BufSize
        /\ Len(curOp.blackImg) > BufSize =>
              /\ Touching(writeRAMBW) = {}
              /\ call[1].seq <= 1
        /\ (Len(curOp.blackImg) > BufSize \/ Len(curOp.redImg) > BufSize) =>
              /\ Touching(writeRAMRed) = {}
              /\ Touching(displayUpdateControl2) = {}
              /\ Touching(masterActivation) = {}
              /\ call[1].pc # "wait_read"
              /\ ~Done(1)
        /\ call[1].pc = "panic" =>
              (Len(curOp.blackImg) > BufSize \/ Len(curOp.redImg) > BufSize)

\* C37 witness: an Upload with a red buffer longer than BufSize has
\* panicked after the whole black plane went out.
C37_Witness ==
    /\ curOp.name = "Upload" /\ call[1].pc = "panic"
    /\ Len(curOp.redImg) > BufSize
    /\ NoFailure
    /\ PayloadUnder(writeRAMBW) = Padded(curOp.blackImg, 255)

\* An Upload with a black buffer longer than BufSize has panicked after
\* the address command.
PanickedOnBlack ==
    /\ curOp.name = "Upload" /\ call[1].pc = "panic"
    /\ Len(curOp.blackImg) > BufSize
    /\ OpcodesSent = <<setRamYAddressCtr>>

(* ------------------- the two-image upload, read back ------------------- *)

\* The entry of the two-colour palette p that the pixel (x, y) of src is
\* classified as: the entry nearest to its colour; outside src, where
\* nothing is drawn, the blank White.
ClassOf(src, p, x, y) ==
    IF In(x, y, src.Rect) THEN Convert(p, SrcAt(src, x, y)) ELSE White

DrewPlanes == last.op = "DrawAndRefreshImages"

\* C38 as stated: after DrawAndRefreshImages(black, redyellow) the black plane of
\* the framebuffer has, at every pixel, the bit that the class of the
\* black image's pixel against {White, Black} gives, and the highlight
\* plane the bit that the class of the redyellow image's pixel against
\* {White, Highlight} gives; At then reports Highlight where the redyellow
\* pixel classified as Highlight, and otherwise Black or White as the
\* black image's pixel classified.
C38_PlanesByNearestColour ==
    DrewPlanes =>
        \A q \in Pixels :
            LET b == ClassOf(last.src, <<White, BlackColor>>, q[1], q[2])
                r == ClassOf(last.red, <<White, HighlightColor>>, q[1], q[2])
            IN  /\ BitAt(Black, q[1], q[2]) = IF b = BlackColor THEN 0 ELSE 1
                /\ BitAt(Highlight, q[1], q[2]) =
                       IF r = HighlightColor THEN 1 ELSE 0
                /\ ImageAt(Buffer, q[1], q[2]) =
                       IF r = HighlightColor THEN HighlightColor ELSE b

\* What Set writes for the pixel (x, y) of src on an image of palette p: a
\* colour of this package keeps its own role, whatever the palette; any
\* other colour takes the entry of p nearest to it; outside src nothing is
\* written on the blank image.
RoleDrawn(src, p, x, y) ==
    IF ~In(x, y, src.Rect) THEN 0
    ELSE LET c == SrcAt(src, x, y)
         IN  IF c.native THEN c.C ELSE Convert(p, c).C

\* C38 amended: after DrawAndRefreshImages(black, redyellow) a pixel is
\* black in the black plane exactly if the black image's pixel is the
\* package's Black, or is a colour of another type nearer to Black than to
\* White, and is set in the highlight plane exactly if the redyellow
\* image's pixel is the package's Highlight, or is a colour of another
\* type nearer to Highlight than to White; At reports Highlight where the
\* highlight bit is set and otherwise Black or White by the black plane.
C38_PlanesOfTwoImages ==
    DrewPlanes =>
        \A q \in Pixels :
            LET b == RoleDrawn(last.src, <<White, BlackColor>>, q[1], q[2])
                r == RoleDrawn(last.red, <<White, HighlightColor>>, q[1], q[2])
            IN  /\ BitAt(Black, q[1], q[2]) = IF b = 1 THEN 0 ELSE 1
                /\ BitAt(Highlight, q[1], q[2]) = IF r = 2 THEN 1 ELSE 0
                /\ ImageAt(Buffer, q[1], q[2]) =
                       IF r = 2 THEN HighlightColor
                       ELSE IF b = 1 THEN BlackColor ELSE White

\* C38 witness: the call has returned; the black image is in colours of
\* another type and the redyellow image in colours of this package, and At
\* reports each of Highlight, Black and White at some pixel.
C38_Witness ==
    /\ DrewPlanes /\ Done(1)
    /\ ~SrcAt(last.src, 0, 0).native
    /\ SrcAt(last.red, 0, 0).native
    /\ \A c \in {White, BlackColor, HighlightColor} :
           \E q \in Pixels : ImageAt(Buffer, q[1], q[2]) = c

==============================================================================
